---- MODULE Spec2Model ----
(***************************************************************************)
(* Model of the resilient API access core of kumiho-n8n:                   *)
(*   - kumihoRequest (src/nodes/helpers/kumihoApi.ts): the retrying        *)
(*     request executor, its failure classification and its error shape;   *)
(*   - KumihoEventStreamTrigger.trigger                                    *)
(*     (src/nodes/KumihoEventStream/KumihoEventStreamTrigger.node.ts):     *)
(*     the SSE reconnect loop, cursor checkpointing and delivery.          *)
(* Times are milliseconds.  The JavaScript value undefined is the string   *)
(* "undefined".                                                            *)
(***************************************************************************)
EXTENDS Integers, Sequences, FiniteSets, TLC

VARIABLES
  \* ---- kumihoRequest: one logical call ----
  rpc,            \* position in kumihoRequest: loop | request | sleep | returned | thrown
  attempt,        \* the for-loop counter
  maxAttempts,    \* options.maxAttempts ?? 5
  retryBudgetMs,  \* options.retryBudgetMs ?? 60000
  elapsed,        \* Date.now() - startedAt
  lastError,      \* the error caught by the last failed attempt
  delayMs,        \* the argument of the pending sleep
  result,         \* what the call returned or threw
  attemptsMade,   \* number of context.helpers.request calls so far
  statuses,       \* HTTP status of every attempt so far, in order
  \* ---- KumihoEventStreamTrigger.trigger: one trigger instance and its server ----
  pc,             \* position of streamLoop: creds | headers | fetch | read | flush |
                  \*   emit | sleep | exited (loop left) | rejected (streamLoop threw)
  isStopped,      \* the flag closeFunction sets
  cursor,         \* the in-memory cursor (0: empty)
  staticCursor,   \* staticData.cursor, the persisted slot (0: empty)
  advancedCursor, \* the node parameter Advanced -> Cursor (0: empty)
  urlCursor,      \* the cursor query parameter of the last stream URL (0: omitted)
  srvPos,         \* index of the next event the server sends on this connection
  pending,        \* payloads of the chunk just read that flush has not handled yet
  emitted,        \* indices of the events emitted downstream, in order
  stream,         \* the server's event stream; the cursor of event i is i
  checkpoints,    \* cursors checkpointed since the trigger (re)started, in order
  startCursor,    \* the cursor the trigger (re)started with
  firstCursor,    \* the cursor of the very first start
  connects,       \* stream URLs built so far
  crashes,        \* process crashes so far
  abortController,\* the AbortController of the last connectSse: undefined | live | aborted
  connOpen,       \* a response body and its reader are open on the client
  itemKindFilter, \* the node parameter Item Kind Filter
  sinkFailures,   \* how often this.emit has thrown
  \* ---- failure classification as a function of one raw error ----
  clsErr,         \* the raw error to classify
  clsOut,         \* "pending", or the value of shouldRetry for clsErr
  \* ---- kumihoRequest: the request options of two calls ----
  sigCall,        \* the options of call 1 and call 2
  sigOut,         \* per call: idempotencyKey (line 378) and the header put in requestOptions
  sigSent,        \* x-idempotency-key of every attempt of call 1 sent so far, in order
  \* ---- kumihoRequest: the delay before one retry ----
  bkErr,          \* the raw error of the failed attempt
  bkAttempt,      \* the attempt that failed
  bkRandom,       \* Math.random() * 1000
  bkDelay,        \* the argument of sleep, once computed
  \* ---- kumihoRequest: credentials and the first request ----
  crIn,           \* the stored credentials: serviceToken, userToken
  crPc,           \* position in kumihoRequest: start, creds (got credentials), ready, sent, failed
  crNet,          \* number of context.helpers.request calls made
  \* ---- kumihoRequest: two runs that differ in their credentials ----
  rdCreds,        \* the stored credentials of run 1 and of run 2
  rdRaw,          \* which raw error both runs meet and where it holds headers
  rdThrown,       \* per run, the error kumihoRequest threw (none before)
  \* ---- connectSse: the SSE parser on one connection ----
  sseStream,      \* the characters the server sends on one connection
  ssePos,         \* how many of them reader.read() has delivered
  sseBuffer,      \* the variable buffer of connectSse
  ssePayloads,    \* the payloads handed to onMessage, in order
  sseDone,        \* reader.read() has reported done
  \* ---- matchesContextPath as a function of the path filter and one event ----
  cpPath,         \* the node parameter contextPath (Path Filter)
  cpEvent,        \* the parsed event handed to matchesContextPath
  cpOut,          \* pending, or pass / drop: what matchesContextPath returned
  \* ---- matchesWildcardPattern as a function of one value and one pattern ----
  wcValue,        \* the value a pattern is matched against (valueRaw)
  wcPattern,      \* the pattern (patternRaw)
  wcOut,          \* pending, or true / false / throws: the outcome of matchesWildcardPattern
  \* ---- KumihoMcpClient.execute: Project / Space Create with its GET fallback ----
  fbPc,           \* position in execute: create (awaiting the POST), get (fallback GET in flight), output, thrown
  fbGets,         \* requests sent by the fallback kumihoRequest
  fbOut,          \* what execute produced: none, created, existing or createError
  \* ---- kumihoRequest: the per-attempt timeout and the retry budget of one call ----
  cfgEnv,         \* process.env: KUMIHO_N8N_REQUEST_TIMEOUT_MS and KUMIHO_N8N_RETRY_BUDGET_MS (NoNum: unset)
  cfgOptions,     \* options.timeoutMs and options.retryBudgetMs of the call (NoNum: undefined)
  cfgOut,         \* requestOptions.timeout and retryBudgetMs of the call (NoNum: not computed yet)
  \* ---- kumihoRequest: correlation id and headers of two calls made with one context ----
  cidExec,        \* what context.getExecutionId() returns (NoToken: no such function, or undefined)
  cidCall,        \* the options of call 1 and call 2 of one execution
  cidOut,         \* per call, the headers kumihoRequest fixed before its loop
  cidSent,        \* per call, the headers of every attempt sent so far, in order
  cidUuids        \* randomUUID() calls made so far

reqVars == <<rpc, attempt, maxAttempts, retryBudgetMs, elapsed, lastError,
             delayMs, result, attemptsMade, statuses>>
strVars == <<pc, isStopped, cursor, staticCursor, advancedCursor, urlCursor, srvPos,
             pending, emitted, stream, checkpoints, startCursor, firstCursor,
             connects, crashes, abortController, connOpen, itemKindFilter, sinkFailures>>
clsVars == <<clsErr, clsOut>>
sigVars == <<sigCall, sigOut, sigSent>>
bkVars == <<bkErr, bkAttempt, bkRandom, bkDelay>>
crVars == <<crIn, crPc, crNet>>
rdVars == <<rdCreds, rdRaw, rdThrown>>
sseVars == <<sseStream, ssePos, sseBuffer, ssePayloads, sseDone>>
pathVars == <<cpPath, cpEvent, cpOut>>
wcVars == <<wcValue, wcPattern, wcOut>>
fbVars == <<fbPc, fbGets, fbOut>>
cfgVars == <<cfgEnv, cfgOptions, cfgOut>>
cidVars == <<cidExec, cidCall, cidOut, cidSent, cidUuids>>
auxVars == <<sigVars, bkVars, crVars, rdVars, sseVars, pathVars, wcVars, fbVars, cfgVars, cidVars>>
vars == <<reqVars, strVars, clsVars, auxVars>>

Undefined == "undefined"
\* undefined where the code holds a number (a status code, a delay)
NoNum == 0 - 1

Max(a, b) == IF a >= b THEN a ELSE b
Min(a, b) == IF a <= b THEN a ELSE b

(***************************************************************************)
(* Bounds of the model.                                                    *)
(***************************************************************************)
\* largest maxAttempts a call is given
MaxAttemptsBound == 3
\* number of events of the server's stream
StreamLen == 3
\* number of stream connections one behaviour opens
MaxConnects == 2
\* number of process crashes one behaviour suffers
MaxCrashes == 1
\* number of times this.emit throws in one behaviour
MaxSinkFailures == 1

(***************************************************************************)
(* Program constants.                                                      *)
(***************************************************************************)
baseDelayMs == 1000
maxDelayMs == 16000
DefaultRetryBudgetMs == 60000
DefaultTimeoutMs == 60000
BudgetExceededStatus == 408

TransientNetworkCodes ==
  {"ETIMEDOUT", "ECONNRESET", "EPIPE", "ENOTFOUND", "EAI_AGAIN", "ECONNABORTED"}

(***************************************************************************)
(* Raw errors (KumihoRequestErrorShape).  A response body is               *)
(*   kind: undefined | object | json (a string holding a JSON object) |    *)
(*         array | text (a string that is no JSON object)                  *)
(*   error: the body's `error` member: absent | object | scalar            *)
(*   retryable: the error object's `retryable`: absent | true | false |    *)
(*         strtrue (the string "true")                                     *)
(*   retry_after_ms, code: members of the error object.                    *)
(***************************************************************************)
NoBody ==
  [kind |-> "undefined", error |-> "absent", retryable |-> "absent",
   retry_after_ms |-> NoNum, code |-> Undefined]

Body(kind, error, retryable, retryAfter, code) ==
  [kind |-> kind, error |-> error, retryable |-> retryable,
   retry_after_ms |-> retryAfter, code |-> code]

\* header Retry-After: absent, integer seconds, an HTTP date (delta to now in ms), or junk
NoHeader == [kind |-> "absent", v |-> 0]

Err(statusCode, respStatusCode, code, body, retryAfter) ==
  [statusCode |-> statusCode, respStatusCode |-> respStatusCode, code |-> code,
   body |-> body, retryAfterHeader |-> retryAfter]

\* tryParseJsonObject: the object a body value denotes, or undefined
tryParseJsonObject(body) ==
  IF body.kind \in {"object", "json"} THEN [body EXCEPT !.kind = "object"] ELSE NoBody

\* err.statusCode ?? err.response?.statusCode
StatusCodeOf(err) ==
  IF err.statusCode # NoNum THEN err.statusCode ELSE err.respStatusCode

\* responseError: responseBody?.error when it is an object
ResponseErrorOf(err) ==
  LET responseBody == tryParseJsonObject(err.body)
  IN IF responseBody.kind = "undefined" THEN NoBody
     ELSE IF responseBody.error = "object" THEN responseBody ELSE NoBody

retryableFromBody(err) ==
  ResponseErrorOf(err).retryable = "true"

\* (mutation of retryableByStatus: 429 is forgotten)
retryableByStatusNo429(err) ==
  LET statusCode == StatusCodeOf(err)
  IN statusCode # NoNum /\ statusCode >= 500

retryableByStatus(err) ==
  LET statusCode == StatusCodeOf(err)
  IN statusCode = 429 \/ (statusCode # NoNum /\ statusCode >= 500)

retryableByNetwork(err) ==
  /\ StatusCodeOf(err) = NoNum
  /\ err.code # Undefined
  /\ err.code \in TransientNetworkCodes

shouldRetry(err) ==
  retryableFromBody(err) \/ retryableByStatus(err) \/ retryableByNetwork(err)

(***************************************************************************)
(* Retry-After and backoff.                                                *)
(***************************************************************************)
\* parseRetryAfterMs: integer seconds, or an HTTP date as a delta floored at 0
parseRetryAfterMs(header) ==
  CASE header.kind = "seconds" -> header.v * 1000
    [] header.kind = "date" -> Max(header.v, 0)
    [] OTHER -> NoNum

\* retryAfterMsFromBody ?? retryAfterMsFromHeader
retryAfterMsOf(err) ==
  LET retryAfterMsFromBody == ResponseErrorOf(err).retry_after_ms
      retryAfterMsFromHeader == parseRetryAfterMs(err.retryAfterHeader)
  IN IF retryAfterMsFromBody # NoNum THEN retryAfterMsFromBody ELSE retryAfterMsFromHeader

RECURSIVE Pow2(_)
Pow2(n) == IF n <= 0 THEN 1 ELSE 2 * Pow2(n - 1)

\* (mutation of expDelay: the exponential delay is not capped)
expDelayUncapped(n) == baseDelayMs * Pow2(n - 1)

\* Math.min(maxDelayMs, baseDelayMs * 2 ** (attempt - 1))
expDelay(n) == Min(maxDelayMs, baseDelayMs * Pow2(n - 1))

\* Math.round(expDelay * (1 + (Math.random() * 0.4 - 0.2))), Math.random() = r / 1000
backoffMs(n, r) ==
  Max(0, (expDelay(n) * (8000 + 4 * r) + 5000) \div 10000)

\* retryAfterMs ? Math.max(backoffMs, retryAfterMs) : backoffMs
delayMsOf(err, n, r) ==
  LET retryAfterMs == retryAfterMsOf(err)
  IN IF retryAfterMs # NoNum /\ retryAfterMs # 0
     THEN Max(backoffMs(n, r), retryAfterMs) ELSE backoffMs(n, r)

(***************************************************************************)
(* toNodeApiError: the NodeApiError and its `kumiho` metadata.             *)
(***************************************************************************)
toNodeApiError(err) ==
  LET kumihoError == ResponseErrorOf(err)
  IN [kind |-> "thrown",
      status_code |-> StatusCodeOf(err),
      code |-> kumihoError.code,
      retryable |-> (kumihoError.retryable = "true"),
      retry_after_ms |-> kumihoError.retry_after_ms,
      cause |-> err]

\* (mutation of BudgetExceededError: the last upstream error is passed through)
BudgetErrorPassthrough == lastError

\* the error kumihoRequest builds itself when the budget is used up
BudgetExceededError ==
  Err(BudgetExceededStatus, BudgetExceededStatus, Undefined,
      Body("object", "object", "false", NoNum, "client_retry_budget_exceeded"),
      NoHeader)

\* a response that is an object is returned as is, anything else as {value: response}
kumihoReturn(response) ==
  [kind |-> "returned",
   wrapped |-> ~(response.kind \in {"object", "array"}),
   value |-> response]

(***************************************************************************)
(* Inputs of the request model.                                            *)
(***************************************************************************)
\* how long one context.helpers.request call takes: at most the per-attempt timeout
Durations == {100, DefaultTimeoutMs}
\* samples of Math.random() * 1000
JitterSamples == {0, 999}
RetryBudgets == {2000, DefaultRetryBudgetMs}
Responses == {[kind |-> "object", status |-> 200], [kind |-> "scalar", status |-> 200]}

RawErrors ==
  { Err(503, 503, Undefined, NoBody, NoHeader),
    Err(503, 503, Undefined, Body("object", "object", "true", 3000, "unavailable"), NoHeader),
    Err(429, 429, Undefined, NoBody, [kind |-> "seconds", v |-> 3]),
    Err(409, 409, Undefined, Body("json", "object", "true", NoNum, "conflict"), NoHeader),
    Err(400, 400, Undefined, Body("object", "object", "false", NoNum, "bad_request"), NoHeader),
    Err(NoNum, NoNum, "ETIMEDOUT", NoBody, NoHeader),
    Err(NoNum, NoNum, "EACCES", NoBody, NoHeader) }

NoError == Err(NoNum, NoNum, Undefined, NoBody, NoHeader)
NoResult == [kind |-> "none"]

(***************************************************************************)
(* kumihoRequest: the retry loop.                                          *)
(***************************************************************************)
InitRequest ==
  /\ rpc = "loop"
  /\ attempt = 1
  /\ maxAttempts \in 1..MaxAttemptsBound
  /\ retryBudgetMs \in RetryBudgets
  /\ elapsed = 0
  /\ lastError = NoError
  /\ delayMs = 0
  /\ result = NoResult
  /\ attemptsMade = 0
  /\ statuses = << >>

\* Date.now() - startedAt > retryBudgetMs
BudgetExhausted == elapsed > retryBudgetMs

\* top of the for loop, budget used up: throw the synthetic error
BudgetExceeded ==
  /\ rpc = "loop"
  /\ attempt <= maxAttempts
  /\ BudgetExhausted
  /\ rpc' = "thrown"
  /\ result' = toNodeApiError(BudgetExceededError)
  /\ UNCHANGED <<attempt, maxAttempts, retryBudgetMs, elapsed, lastError, delayMs,
                 attemptsMade, statuses>>
  /\ UNCHANGED <<strVars, clsVars, auxVars>>

\* top of the for loop, budget left: issue context.helpers.request
StartAttempt ==
  /\ rpc = "loop"
  /\ attempt <= maxAttempts
  /\ ~BudgetExhausted
  /\ rpc' = "request"
  /\ attemptsMade' = attemptsMade + 1
  /\ UNCHANGED <<attempt, maxAttempts, retryBudgetMs, elapsed, lastError, delayMs,
                 result, statuses>>
  /\ UNCHANGED <<strVars, clsVars, auxVars>>

\* the request resolves: return the response
RequestSucceeds ==
  /\ rpc = "request"
  /\ \E d \in Durations, response \in Responses :
       /\ elapsed' = elapsed + d
       /\ result' = kumihoReturn(response)
       /\ statuses' = Append(statuses, response.status)
  /\ rpc' = "returned"
  /\ UNCHANGED <<attempt, maxAttempts, retryBudgetMs, lastError, delayMs, attemptsMade>>
  /\ UNCHANGED <<strVars, clsVars, auxVars>>

\* (mutation of ThrowNow: the attempt cap is tested one attempt too late)
ThrowNowCapOffByOne(err) == ~shouldRetry(err) \/ attempt > maxAttempts

\* if (!shouldRetry || attempt === maxAttempts) throw
ThrowNow(err) == ~shouldRetry(err) \/ attempt = maxAttempts

\* the catch block: classify, then throw or start the backoff sleep
RequestFails ==
  /\ rpc = "request"
  /\ \E d \in Durations, err \in RawErrors, r \in JitterSamples :
       /\ elapsed' = elapsed + d
       /\ lastError' = err
       /\ statuses' = Append(statuses, StatusCodeOf(err))
       /\ IF ThrowNow(err)
          THEN /\ rpc' = "thrown"
               /\ result' = toNodeApiError(err)
               /\ delayMs' = delayMs
          ELSE /\ rpc' = "sleep"
               /\ delayMs' = delayMsOf(err, attempt, r)
               /\ result' = result
  /\ UNCHANGED <<attempt, maxAttempts, retryBudgetMs, attemptsMade>>
  /\ UNCHANGED <<strVars, clsVars, auxVars>>

\* await sleep(delayMs) ends; attempt++
BackoffDone ==
  /\ rpc = "sleep"
  /\ elapsed' = elapsed + delayMs
  /\ attempt' = attempt + 1
  /\ rpc' = "loop"
  /\ UNCHANGED <<maxAttempts, retryBudgetMs, lastError, delayMs, result,
                 attemptsMade, statuses>>
  /\ UNCHANGED <<strVars, clsVars, auxVars>>

(***************************************************************************)
(* Strings of the event trigger are sequences of characters; the scheme    *)
(* "kref://" is one element.                                               *)
(***************************************************************************)
StartsWith(s, prefix) ==
  Len(prefix) <= Len(s) /\ SubSeq(s, 1, Len(prefix)) = prefix

EndsWith(s, suffix) ==
  Len(suffix) <= Len(s) /\ SubSeq(s, Len(s) - Len(suffix) + 1, Len(s)) = suffix

Includes(s, ch) == \E i \in 1..Len(s) : s[i] = ch

RECURSIVE TrimStartOf(_, _)
TrimStartOf(s, ch) ==
  IF s # << >> /\ Head(s) = ch THEN TrimStartOf(Tail(s), ch) ELSE s

RECURSIVE TrimEndOf(_, _)
TrimEndOf(s, ch) ==
  IF s # << >> /\ s[Len(s)] = ch THEN TrimEndOf(SubSeq(s, 1, Len(s) - 1), ch) ELSE s

\* String.prototype.trim
Trim(s) == TrimEndOf(TrimStartOf(s, " "), " ")

Scheme == <<"kref://">>
SubtreeGlob == <<"/", "*", "*">>

normalizeContextPathToKrefFilter(contextPathRaw) ==
  LET raw == Trim(contextPathRaw)
      withScheme == IF StartsWith(raw, Scheme) THEN raw
                    ELSE Scheme \o TrimStartOf(raw, "/")
      trimmed == TrimEndOf(withScheme, "/")
  IN IF raw = << >> THEN << >>
     ELSE IF Includes(raw, "*") \/ Includes(raw, "?") THEN raw
     ELSE trimmed \o SubtreeGlob

getContextPrefixFromKrefFilter(krefFilter) ==
  LET filter == Trim(krefFilter)
  IN IF filter = << >> THEN << >>
     ELSE IF EndsWith(filter, SubtreeGlob) THEN SubSeq(filter, 1, Len(filter) - 3)
     ELSE IF Includes(filter, "*") \/ Includes(filter, "?") THEN << >>
     ELSE filter

\* an event is a parsed payload: valid (JSON.parse succeeded), kref, cursor (0: none)
matchesContextPath(event, contextPathRaw) ==
  LET krefFilter == normalizeContextPathToKrefFilter(contextPathRaw)
      kref == event.kref
      prefix == getContextPrefixFromKrefFilter(krefFilter)
  IN IF krefFilter = << >> THEN TRUE
     ELSE IF kref = << >> THEN FALSE
     ELSE IF prefix = << >> THEN TRUE
     ELSE IF kref = prefix THEN TRUE
     ELSE StartsWith(kref, IF EndsWith(prefix, <<"/">>) THEN prefix ELSE prefix \o <<"/">>)

(***************************************************************************)
(* Wildcard patterns.  matchesWildcardPattern builds a RegExp from the      *)
(* pattern; the RegExp is modelled by its source, parsed into atoms (a      *)
(* literal character or `.`, each with a quantifier) as the RegExp          *)
(* constructor does, and a source it rejects makes the call throw.          *)
(***************************************************************************)
Backslash == "\\"

\* the character class [.+^${}()|[\]\\] of line 16
RegExpSpecialChars == {".", "+", "^", "$", "{", "}", "(", ")", "|", "[", "]", Backslash}

\* pattern.replace(/[.+^${}()|[\]\\]/g, '\\$&')
RECURSIVE EscapeSpecialChars(_)
EscapeSpecialChars(pattern) ==
  IF pattern = << >> THEN << >>
  ELSE IF Head(pattern) \in RegExpSpecialChars
       THEN <<Backslash, Head(pattern)>> \o EscapeSpecialChars(Tail(pattern))
       ELSE <<Head(pattern)>> \o EscapeSpecialChars(Tail(pattern))

\* text.replace(/\\<ch>/g, replacement): a backslash followed by ch
RECURSIVE ReplaceEscapedChar(_, _, _)
ReplaceEscapedChar(text, ch, replacement) ==
  IF text = << >> THEN << >>
  ELSE IF Len(text) >= 2 /\ text[1] = Backslash /\ text[2] = ch
       THEN replacement \o ReplaceEscapedChar(Tail(Tail(text)), ch, replacement)
       ELSE <<Head(text)>> \o ReplaceEscapedChar(Tail(text), ch, replacement)

\* the source between ^ and $ of the RegExp of line 17
RegExpSource(pattern) ==
  ReplaceEscapedChar(ReplaceEscapedChar(EscapeSpecialChars(pattern), "*", <<".", "*">>),
                     "?", <<".">>)

Atom(kind, ch) == [kind |-> kind, ch |-> ch, quant |-> "one"]

WithQuantifier(atoms, quant) ==
  [atoms EXCEPT ![Len(atoms)] = [atoms[Len(atoms)] EXCEPT !.quant = quant]]

\* new RegExp(source): the atoms of the source, or a SyntaxError.  last is what
\* stands before the next character: start (the ^), atom, quant (an atom with its
\* quantifier) or lazy (a quantifier with its ? suffix); * and ? need an atom
\* before them, ? may also follow a quantifier once
RECURSIVE ParseRegExp(_, _, _)
ParseRegExp(source, atoms, last) ==
  IF source = << >> THEN [ok |-> TRUE, atoms |-> atoms]
  ELSE LET c == Head(source)
       IN IF c = Backslash
          THEN IF Len(source) >= 2
               THEN ParseRegExp(Tail(Tail(source)),
                                Append(atoms, Atom("literal", source[2])), "atom")
               ELSE [ok |-> FALSE, atoms |-> << >>]
          ELSE IF c = "."
          THEN ParseRegExp(Tail(source), Append(atoms, Atom("any", ".")), "atom")
          ELSE IF c = "*"
          THEN IF last = "atom"
               THEN ParseRegExp(Tail(source), WithQuantifier(atoms, "star"), "quant")
               ELSE [ok |-> FALSE, atoms |-> << >>]
          ELSE IF c = "?"
          THEN IF last = "atom"
               THEN ParseRegExp(Tail(source), WithQuantifier(atoms, "optional"), "quant")
               ELSE IF last = "quant"
               THEN ParseRegExp(Tail(source), atoms, "lazy")
               ELSE [ok |-> FALSE, atoms |-> << >>]
          ELSE ParseRegExp(Tail(source), Append(atoms, Atom("literal", c)), "atom")

AtomFits(atom, ch) == atom.kind = "any" \/ atom.ch = ch

\* re.test(value) for the anchored RegExp ^atoms$
RECURSIVE RegExpTest(_, _)
RegExpTest(atoms, value) ==
  IF atoms = << >> THEN value = << >>
  ELSE LET atom == Head(atoms)
           takesOne == value # << >> /\ AtomFits(atom, Head(value))
       IN IF atom.quant = "one"
          THEN takesOne /\ RegExpTest(Tail(atoms), Tail(value))
          ELSE IF atom.quant = "optional"
          THEN \/ RegExpTest(Tail(atoms), value)
               \/ takesOne /\ RegExpTest(Tail(atoms), Tail(value))
          ELSE \/ RegExpTest(Tail(atoms), value)
               \/ takesOne /\ RegExpTest(atoms, Tail(value))

\* true | false | throws
matchesWildcardPattern(valueRaw, patternRaw) ==
  LET value == Trim(valueRaw)
      pattern == Trim(patternRaw)
      re == ParseRegExp(RegExpSource(pattern), << >>, "start")
  IN IF pattern = << >> THEN "true"
     ELSE IF ~Includes(pattern, "*") /\ ~Includes(pattern, "?")
     THEN IF value = pattern THEN "true" ELSE "false"
     ELSE IF ~re.ok THEN "throws"
     ELSE IF RegExpTest(re.atoms, value) THEN "true" ELSE "false"

(***************************************************************************)
(* The filters of the onMessage callback.  In a kref the scheme is the one  *)
(* element "kref://"; the routing-key words item and created are one        *)
(* element each.                                                            *)
(***************************************************************************)
\* text.split(sep)
RECURSIVE SplitOn(_, _)
SplitOn(text, sep) ==
  IF ~Includes(text, sep) THEN <<text>>
  ELSE LET i == CHOOSE k \in 1..Len(text) :
                   text[k] = sep /\ \A j \in 1..(k - 1) : text[j] # sep
       IN <<SubSeq(text, 1, i - 1)>> \o SplitOn(SubSeq(text, i + 1, Len(text)), sep)

\* parts.filter(Boolean)
NonEmptyParts(parts) == SelectSeq(parts, LAMBDA part : part # << >>)

\* the characters of a kref: the scheme written out as "kref:" "/" "/"
RECURSIVE KrefChars(_)
KrefChars(kref) ==
  IF kref = << >> THEN << >>
  ELSE IF Head(kref) = "kref://" THEN <<"kref:", "/", "/">> \o KrefChars(Tail(kref))
  ELSE <<Head(kref)>> \o KrefChars(Tail(kref))

getKrefLastSegment(kref) ==
  LET withoutQuery == SplitOn(KrefChars(kref), "?")[1]
      parts == NonEmptyParts(SplitOn(withoutQuery, "/"))
  IN IF parts # << >> THEN parts[Len(parts)] ELSE withoutQuery

\* last.lastIndexOf('.') + 1, 0 if there is no dot
LastDotOf(last) ==
  IF Includes(last, ".")
  THEN CHOOSE k \in 1..Len(last) :
         last[k] = "." /\ \A j \in (k + 1)..Len(last) : last[j] # "."
  ELSE 0

\* itemName and itemKind of a kref; the empty string stands for an absent member,
\* which the callers replace by '' (parsed.itemName ?? '')
parseItemNameKindFromKref(kref) ==
  LET last == getKrefLastSegment(kref)
      dot == LastDotOf(last)
  IN IF last = << >> THEN [itemName |-> << >>, itemKind |-> << >>]
     ELSE IF dot > 1 /\ dot < Len(last)
     THEN [itemName |-> SubSeq(last, 1, dot - 1),
           itemKind |-> SubSeq(last, dot + 1, Len(last))]
     ELSE [itemName |-> last, itemKind |-> << >>]

getRoutingKeySegments(routingKey) ==
  LET parts == SplitOn(Trim(routingKey), ".")
  IN NonEmptyParts([k \in DOMAIN parts |-> Trim(parts[k])])

\* matchesNameFilter for triggerType 'item', the trigger type of the model: a needle
\* with a dot is matched against the routing key, any other against its name
\* segment; true | false | throws
matchesNameFilter(event, filter) ==
  LET needle == Trim(filter)
      segs == getRoutingKeySegments(event.routing_key)
      typeSeg == IF segs # << >> THEN segs[1] ELSE << >>
      nameSeg == IF Len(segs) >= 3 THEN segs[2] ELSE << >>
  IN IF needle = << >> THEN "true"
     ELSE IF Includes(needle, ".") THEN matchesWildcardPattern(event.routing_key, needle)
     ELSE IF typeSeg = <<"item">> /\ nameSeg # << >>
          THEN matchesWildcardPattern(nameSeg, needle)
          ELSE "false"

\* the item name / item kind block of onMessage (lines 394-400): true | false | throws
matchesItemFilters(event, nameFilter, kindFilter) ==
  LET parsed == parseItemNameKindFromKref(event.kref)
      byName == IF nameFilter # << >>
                THEN matchesWildcardPattern(parsed.itemName, nameFilter) ELSE "true"
      byKind == IF kindFilter # << >>
                THEN matchesWildcardPattern(parsed.itemKind, kindFilter) ELSE "true"
  IN IF byName # "true" THEN byName ELSE byKind

(***************************************************************************)
(* The event trigger.  Node parameters: triggerType is 'item'; the path     *)
(* filter is contextPath; the routing-key name filter is                    *)
(* routingKeyNameFilter; the item name filter is left empty; the item kind  *)
(* filter is the variable itemKindFilter.                                   *)
(***************************************************************************)
contextPath == <<"p", "/", "s">>
routingKeyNameFilter == <<"n">>
itemNameFilter == << >>

\* values of the node parameter Item Kind Filter: a kind, and a pattern of which
\* new RegExp throws
ItemKindFilters == { <<"k">>, <<"*">> }

KrefInside == <<"kref://", "p", "/", "s", "/", "i", ".", "k">>
KrefOtherKind == <<"kref://", "p", "/", "s", "/", "i", ".", "j">>
KrefOutside == <<"kref://", "p", "/", "s", "2">>

RoutingKeyNamed == <<"item", ".", "n", ".", "created">>
RoutingKeyOtherName == <<"item", ".", "m", ".", "created">>

\* payloads the server sends: one that passes every filter with a cursor, one
\* without a cursor, one outside the subtree, one with another routing-key name, one
\* of another item kind, and a payload that is not JSON
EventKinds ==
  { [valid |-> TRUE, kref |-> KrefInside, routing_key |-> RoutingKeyNamed, hasCursor |-> TRUE],
    [valid |-> TRUE, kref |-> KrefInside, routing_key |-> RoutingKeyNamed, hasCursor |-> FALSE],
    [valid |-> TRUE, kref |-> KrefOutside, routing_key |-> RoutingKeyNamed, hasCursor |-> TRUE],
    [valid |-> TRUE, kref |-> KrefInside, routing_key |-> RoutingKeyOtherName, hasCursor |-> TRUE],
    [valid |-> TRUE, kref |-> KrefOtherKind, routing_key |-> RoutingKeyNamed, hasCursor |-> TRUE],
    [valid |-> FALSE, kref |-> << >>, routing_key |-> << >>, hasCursor |-> FALSE] }

\* the `cursor` field of the i-th event of the stream (0: none)
EventCursor(i) == IF stream[i].hasCursor THEN i ELSE 0

\* the stage of onMessage that ends the handling of a payload without an emit:
\* parse (JSON.parse threw), subtree, name or item (the filter returned false), or
\* none; a filter that throws ends it with throws
FilterStage(event, kindFilter) ==
  LET byName == matchesNameFilter(event, routingKeyNameFilter)
      byItem == matchesItemFilters(event, itemNameFilter, kindFilter)
  IN IF ~event.valid THEN "parse"
     ELSE IF ~matchesContextPath(event, contextPath) THEN "subtree"
     ELSE IF byName = "throws" THEN "throws"
     ELSE IF byName = "false" THEN "name"
     ELSE IF byItem = "throws" THEN "throws"
     ELSE IF byItem = "false" THEN "item"
     ELSE "none"

\* the filters read the payload and the node parameters only: their outcomes for
\* the payloads and parameter values of the model
FilterStages ==
  [event \in EventKinds |->
     [kindFilter \in ItemKindFilters |-> FilterStage(event, kindFilter)]]

\* the outcome of the filters of this node on a payload
FilterOutcome(event) == FilterStages[event][itemKindFilter]

\* evaluating a filter pattern throws out of onMessage
FilterThrows(event) == FilterOutcome(event) = "throws"

\* (mutation of PassesFilters: a payload that fails to parse is let through)
PassesFiltersAlways(event) == TRUE

\* JSON.parse succeeded and the event passed every filter of the onMessage callback
PassesFilters(event) == FilterOutcome(event) = "none"

\* (mutation of InitialCursor: the persisted cursor is preferred to the override)
InitialCursorPersistedFirst(advanced, persisted) ==
  IF persisted # 0 THEN persisted ELSE advanced

\* (advanced?.cursor as string) || (staticData.cursor as string)
InitialCursor(advanced, persisted) == IF advanced # 0 THEN advanced ELSE persisted

\* the server resumes strictly after the cursor it is given, from the start without one
ServerResume(c) == c + 1

InitTrigger ==
  /\ stream \in [1..StreamLen -> EventKinds]
  /\ advancedCursor \in {0, 1}
  /\ staticCursor \in {0, 2}
  /\ cursor = InitialCursor(advancedCursor, staticCursor)
  /\ startCursor = cursor
  /\ firstCursor = cursor
  /\ isStopped = FALSE
  /\ pc = "creds"
  /\ urlCursor = 0
  /\ srvPos = 0
  /\ pending = << >>
  /\ emitted = << >>
  /\ checkpoints = << >>
  /\ connects = 0
  /\ crashes = 0
  /\ abortController = "undefined"
  /\ connOpen = FALSE
  /\ itemKindFilter \in ItemKindFilters
  /\ sinkFailures = 0

\* await getKumihoCredentials(this) resolves
CredsOk ==
  /\ pc = "creds"
  /\ pc' = "headers"
  /\ UNCHANGED <<isStopped, cursor, staticCursor, advancedCursor, urlCursor, srvPos,
                 pending, emitted, stream, checkpoints, startCursor, firstCursor,
                 connects, crashes>>
  /\ UNCHANGED <<abortController, connOpen>>
  /\ UNCHANGED <<itemKindFilter, sinkFailures>>
  /\ UNCHANGED <<reqVars, clsVars, auxVars>>

\* await getKumihoCredentials(this) rejects: nothing in streamLoop catches it
CredsFail ==
  /\ pc = "creds"
  /\ pc' = "rejected"
  /\ UNCHANGED <<isStopped, cursor, staticCursor, advancedCursor, urlCursor, srvPos,
                 pending, emitted, stream, checkpoints, startCursor, firstCursor,
                 connects, crashes>>
  /\ UNCHANGED <<abortController, connOpen>>
  /\ UNCHANGED <<itemKindFilter, sinkFailures>>
  /\ UNCHANGED <<reqVars, clsVars, auxVars>>

\* (mutation of StreamUrlCursor: the URL is built from the persisted slot)
StreamUrlFromStatic == staticCursor

\* the cursor parameter of the stream URL: set only if (cursor)
StreamUrlCursor == cursor

\* await getKumihoRequestHeaders(this) resolves; the URL is built and fetch is called
HeadersOk ==
  /\ pc = "headers"
  /\ connects < MaxConnects
  /\ connects' = connects + 1
  /\ urlCursor' = StreamUrlCursor
  /\ pc' = "fetch"
  /\ UNCHANGED <<isStopped, cursor, staticCursor, advancedCursor, srvPos,
                 pending, emitted, stream, checkpoints, startCursor, firstCursor, crashes>>
  /\ abortController' = "live"
  /\ UNCHANGED connOpen
  /\ UNCHANGED <<itemKindFilter, sinkFailures>>
  /\ UNCHANGED <<reqVars, clsVars, auxVars>>

\* await getKumihoRequestHeaders(this) rejects, or new URL(...) throws
HeadersFail ==
  /\ pc = "headers"
  /\ pc' = "rejected"
  /\ UNCHANGED <<isStopped, cursor, staticCursor, advancedCursor, urlCursor, srvPos,
                 pending, emitted, stream, checkpoints, startCursor, firstCursor,
                 connects, crashes>>
  /\ UNCHANGED <<abortController, connOpen>>
  /\ UNCHANGED <<itemKindFilter, sinkFailures>>
  /\ UNCHANGED <<reqVars, clsVars, auxVars>>

\* fetch resolves with an OK response and a body (an aborted signal makes it reject):
\* the reader is taken and the read loop starts unless stopped
FetchOk ==
  /\ pc = "fetch"
  /\ srvPos' = ServerResume(urlCursor)
  /\ pc' = IF isStopped THEN "sleep" ELSE "read"
  /\ UNCHANGED <<isStopped, cursor, staticCursor, advancedCursor, urlCursor,
                 pending, emitted, stream, checkpoints, startCursor, firstCursor,
                 connects, crashes>>
  /\ abortController = "live"
  /\ connOpen' = TRUE
  /\ UNCHANGED abortController
  /\ UNCHANGED <<itemKindFilter, sinkFailures>>
  /\ UNCHANGED <<reqVars, clsVars, auxVars>>

\* fetch resolves with !res.ok or no body: connectSse returns
FetchNotOk ==
  /\ pc = "fetch"
  /\ pc' = "sleep"
  /\ UNCHANGED <<isStopped, cursor, staticCursor, advancedCursor, urlCursor, srvPos,
                 pending, emitted, stream, checkpoints, startCursor, firstCursor,
                 connects, crashes>>
  /\ abortController = "live"
  /\ UNCHANGED <<abortController, connOpen>>
  /\ UNCHANGED <<itemKindFilter, sinkFailures>>
  /\ UNCHANGED <<reqVars, clsVars, auxVars>>

\* fetch or reader.read() rejects (connection error, abort): the catch swallows it
ConnectionError ==
  /\ pc \in {"fetch", "read"}
  /\ pc' = "sleep"
  /\ UNCHANGED <<isStopped, cursor, staticCursor, advancedCursor, urlCursor, srvPos,
                 pending, emitted, stream, checkpoints, startCursor, firstCursor,
                 connects, crashes>>
  /\ connOpen' = FALSE
  /\ UNCHANGED abortController
  /\ UNCHANGED <<itemKindFilter, sinkFailures>>
  /\ UNCHANGED <<reqVars, clsVars, auxVars>>

\* reader.read() resolves with done: the server ended the stream
ReadDone ==
  /\ pc = "read"
  /\ pc' = "sleep"
  /\ UNCHANGED <<isStopped, cursor, staticCursor, advancedCursor, urlCursor, srvPos,
                 pending, emitted, stream, checkpoints, startCursor, firstCursor,
                 connects, crashes>>
  /\ abortController = "live"
  /\ connOpen' = FALSE
  /\ UNCHANGED abortController
  /\ UNCHANGED <<itemKindFilter, sinkFailures>>
  /\ UNCHANGED <<reqVars, clsVars, auxVars>>

\* where the read loop goes once flush has handled every frame of the chunk
AfterFlush == IF isStopped THEN "sleep" ELSE "read"

\* (mutation of DeliverableFrames: onMessage does not test isStopped)
DeliverableFramesIgnoringStop(frames) == frames

\* the frames of a chunk that onMessage goes on to handle: it returns at once
\* if (isStopped), which cannot change while flush runs
DeliverableFrames(frames) == IF isStopped THEN << >> ELSE frames

\* reader.read() resolves with a chunk holding the next one or two frames;
\* flush hands each payload to onMessage
ReadChunk ==
  /\ pc = "read"
  /\ \E n \in {1, 2} :
       /\ srvPos + n - 1 <= StreamLen
       /\ srvPos' = srvPos + n
       /\ pending' = DeliverableFrames([k \in 1..n |-> srvPos + k - 1])
       /\ pc' = IF pending' = << >> THEN AfterFlush ELSE "flush"
  /\ UNCHANGED <<isStopped, cursor, staticCursor, advancedCursor, urlCursor,
                 emitted, stream, checkpoints, startCursor, firstCursor,
                 connects, crashes>>
  /\ UNCHANGED <<abortController, connOpen>>
  /\ UNCHANGED <<itemKindFilter, sinkFailures>>
  /\ UNCHANGED <<reqVars, clsVars, auxVars>>

\* (mutation of Checkpoint: the persisted slot is not written)
CheckpointMemoryOnly(eventCursor) ==
  /\ cursor' = eventCursor
  /\ staticCursor' = staticCursor
  /\ checkpoints' = Append(checkpoints, eventCursor)

\* (mutation of Checkpoint: the in-memory cursor is not advanced)
CheckpointPersistOnly(eventCursor) ==
  /\ cursor' = cursor
  /\ staticCursor' = eventCursor
  /\ checkpoints' = Append(checkpoints, eventCursor)

\* the checkpoint of onMessage: cursor = eventCursor; staticData.cursor = eventCursor
Checkpoint(eventCursor) ==
  /\ cursor' = eventCursor
  /\ staticCursor' = eventCursor
  /\ checkpoints' = Append(checkpoints, eventCursor)

\* (mutation of AfterThrow: nothing catches the exception and streamLoop rejects)
AfterThrowUncaught == "rejected"

\* where streamLoop goes when onMessage throws: the exception leaves flush and the
\* read loop, the catch of connectSse swallows it and returns, and the reconnect
\* delay starts
AfterThrow == "sleep"

\* (mutation of CheckpointDue: the cursor is taken before the filters are applied)
CheckpointDueBeforeFilters(i) == stream[i].valid /\ EventCursor(i) # 0

\* the checkpoint of lines 402-408 is reached only past every filter, and made only
\* if (eventCursor)
CheckpointDue(i) == PassesFilters(stream[i]) /\ EventCursor(i) # 0

\* onMessage up to this.emit: parse, filter, checkpoint.  When a filter throws, the
\* rest of the chunk is not handled and the reader is left as it is
OnMessage ==
  /\ pc = "flush"
  /\ pending # << >>
  /\ LET i == Head(pending)
         event == stream[i]
     IN IF FilterThrows(event)
        THEN /\ pending' = << >>
             /\ pc' = AfterThrow
             /\ UNCHANGED <<cursor, staticCursor, checkpoints>>
        ELSE /\ IF CheckpointDue(i)
                THEN Checkpoint(EventCursor(i))
                ELSE UNCHANGED <<cursor, staticCursor, checkpoints>>
             /\ IF PassesFilters(event)
                THEN pc' = "emit" /\ pending' = pending
                ELSE /\ pending' = Tail(pending)
                     /\ pc' = IF Tail(pending) = << >> THEN AfterFlush ELSE "flush"
  /\ UNCHANGED <<isStopped, advancedCursor, urlCursor, srvPos, emitted, stream,
                 startCursor, firstCursor, connects, crashes>>
  /\ UNCHANGED <<abortController, connOpen>>
  /\ UNCHANGED <<itemKindFilter, sinkFailures>>
  /\ UNCHANGED <<reqVars, clsVars, auxVars>>

\* this.emit([[{ json: event }]]) and the return to flush
Emit ==
  /\ pc = "emit"
  /\ emitted' = Append(emitted, Head(pending))
  /\ pending' = Tail(pending)
  /\ pc' = IF Tail(pending) = << >> THEN AfterFlush ELSE "flush"
  /\ UNCHANGED <<isStopped, cursor, staticCursor, advancedCursor, urlCursor, srvPos,
                 stream, checkpoints, startCursor, firstCursor, connects, crashes>>
  /\ UNCHANGED <<abortController, connOpen>>
  /\ UNCHANGED <<itemKindFilter, sinkFailures>>
  /\ UNCHANGED <<reqVars, clsVars, auxVars>>

\* this.emit throws: the exception is caught by the catch of connectSse like that of
\* a filter; the checkpoint made before the emit stays
EmitThrows ==
  /\ pc = "emit"
  /\ sinkFailures < MaxSinkFailures
  /\ sinkFailures' = sinkFailures + 1
  /\ pending' = << >>
  /\ pc' = AfterThrow
  /\ UNCHANGED <<isStopped, cursor, staticCursor, advancedCursor, urlCursor, srvPos,
                 emitted, stream, checkpoints, startCursor, firstCursor, connects, crashes>>
  /\ UNCHANGED <<abortController, connOpen, itemKindFilter>>
  /\ UNCHANGED <<reqVars, clsVars, auxVars>>

\* (mutation of LoopContinues: the loop never tests the flag)
LoopContinuesAlways == TRUE

\* while (!isStopped)
LoopContinues == ~isStopped

\* await sleep(...) ends and the while condition is evaluated
ReconnectDelayDone ==
  /\ pc = "sleep"
  /\ pc' = IF LoopContinues THEN "creds" ELSE "exited"
  /\ UNCHANGED <<isStopped, cursor, staticCursor, advancedCursor, urlCursor, srvPos,
                 pending, emitted, stream, checkpoints, startCursor, firstCursor,
                 connects, crashes>>
  /\ UNCHANGED <<abortController, connOpen>>
  /\ UNCHANGED <<itemKindFilter, sinkFailures>>
  /\ UNCHANGED <<reqVars, clsVars, auxVars>>

\* closeFunction, run while streamLoop is suspended in an await: the flag is set and
\* the controller of the last connectSse, if any, is aborted
closeFunction ==
  /\ pc \in {"creds", "headers", "fetch", "read", "sleep"}
  /\ ~isStopped
  /\ isStopped' = TRUE
  /\ UNCHANGED <<pc, cursor, staticCursor, advancedCursor, urlCursor, srvPos,
                 pending, emitted, stream, checkpoints, startCursor, firstCursor,
                 connects, crashes>>
  /\ abortController' = IF abortController = "live" THEN "aborted" ELSE abortController
  /\ connOpen' = IF abortController = "live" THEN FALSE ELSE connOpen
  /\ UNCHANGED <<itemKindFilter, sinkFailures>>
  /\ UNCHANGED <<reqVars, clsVars, auxVars>>

\* the process dies at any point and the workflow is activated again: trigger() runs
\* anew on the persisted static data; what was emitted stays emitted
CrashRestart ==
  /\ crashes < MaxCrashes
  /\ crashes' = crashes + 1
  /\ cursor' = InitialCursor(advancedCursor, staticCursor)
  /\ startCursor' = InitialCursor(advancedCursor, staticCursor)
  /\ checkpoints' = << >>
  /\ isStopped' = FALSE
  /\ pc' = "creds"
  /\ pending' = << >>
  /\ srvPos' = 0
  /\ UNCHANGED <<staticCursor, advancedCursor, urlCursor, emitted, stream,
                 firstCursor, connects>>
  /\ abortController' = "undefined"
  /\ connOpen' = FALSE
  /\ UNCHANGED <<itemKindFilter, sinkFailures>>
  /\ UNCHANGED <<reqVars, clsVars, auxVars>>

(***************************************************************************)
(* Classification of one raw error, as the catch block computes it.        *)
(***************************************************************************)
ClassifiedBodies ==
  { Body(k, e, r, NoNum, Undefined) :
      k \in {"undefined", "object", "json", "array", "text"},
      e \in {"absent", "object", "scalar"},
      r \in {"absent", "true", "false", "strtrue"} }

ClassifiedErrors ==
  { Err(sc, rsc, code, body, NoHeader) :
      sc \in {NoNum, 400, 429, 500},
      rsc \in {NoNum, 404, 503},
      code \in {Undefined, "EACCES"} \cup TransientNetworkCodes,
      body \in ClassifiedBodies }

InitClassify ==
  /\ clsErr \in ClassifiedErrors
  /\ clsOut = "pending"

Classify ==
  /\ clsOut = "pending"
  /\ clsOut' = IF shouldRetry(clsErr) THEN "retry" ELSE "raise"
  /\ UNCHANGED <<clsErr, reqVars, strVars, auxVars>>

(***************************************************************************)
(* kumihoRequest before the retry loop: the idempotency key and the        *)
(* x-idempotency-key header of requestOptions.  Strings are sequences of   *)
(* characters.  A key is a record: none (undefined), explicit (the         *)
(* caller's string, in corr) or derived (`n8n-${corr}-${hash}`).           *)
(***************************************************************************)
NoKey == [kind |-> "none", corr |-> << >>, hash |-> << >>]
ExplicitKey(value) == [kind |-> "explicit", corr |-> value, hash |-> << >>]

\* the characters of [a-zA-Z0-9._-] among those the model uses
HeaderSafeChars == {"a", "b", "r", "1", ".", "_", "-"}

\* value.replace(/[^a-zA-Z0-9._-]/g, '-')
ReplaceUnsafe(value) ==
  [i \in DOMAIN value |-> IF value[i] \in HeaderSafeChars THEN value[i] ELSE "-"]

\* .replace(/-+/g, '-')
RECURSIVE CollapseDashes(_)
CollapseDashes(value) ==
  IF Len(value) < 2 THEN value
  ELSE IF value[1] = "-" /\ value[2] = "-" THEN CollapseDashes(Tail(value))
  ELSE <<value[1]>> \o CollapseDashes(Tail(value))

isWriteMethod(method) == method # "GET"

sanitizeHeaderToken(value, maxLen) ==
  LET sanitized == TrimEndOf(TrimStartOf(CollapseDashes(ReplaceUnsafe(value)), "-"), "-")
  IN IF Len(sanitized) <= maxLen THEN sanitized ELSE SubSeq(sanitized, 1, maxLen)

\* options.qs ?? null, options.body ?? null
OrNull(value) == IF value = Undefined THEN "null" ELSE value

\* the first 24 hex digits of the SHA-256 of the JSON text of {method, path, qs, body}:
\* equal texts give equal digests, different texts are taken to give different ones
PayloadHash(options) ==
  <<options.method, options.path, OrNull(options.qs), OrNull(options.body)>>

CorrMaxLen == 32

stableIdempotencyKey(correlationId, options) ==
  LET corr == sanitizeHeaderToken(correlationId, CorrMaxLen)
  IN [kind |-> "derived",
      corr |-> IF corr = << >> THEN <<"c", "o", "r", "r">> ELSE corr,
      hash |-> PayloadHash(options)]

\* (mutation of idempotencyKeyOf: the explicit key counts only on write calls)
idempotencyKeyWriteOnly(options) ==
  IF ~isWriteMethod(options.method) THEN NoKey
  ELSE IF options.idempotencyKey # NoKey THEN options.idempotencyKey
  ELSE stableIdempotencyKey(options.correlationId, options)

\* options.idempotencyKey ?? (isWriteMethod(options.method) ? stableIdempotencyKey(...) : undefined)
idempotencyKeyOf(options) ==
  IF options.idempotencyKey # NoKey THEN options.idempotencyKey
  ELSE IF isWriteMethod(options.method)
       THEN stableIdempotencyKey(options.correlationId, options)
       ELSE NoKey

ProjectsPath == <<"/api/v1/projects">>
SpacesPath == <<"/api/v1/spaces">>
ItemsPath == <<"/api/v1/items">>

disableIdempotencyForRequest(options) ==
  options.method = "POST" /\ options.path \in {ProjectsPath, SpacesPath}

effectiveIdempotencyKey(options) ==
  IF disableIdempotencyForRequest(options) THEN NoKey ELSE idempotencyKeyOf(options)

\* if (effectiveIdempotencyKey) headers['x-idempotency-key'] = effectiveIdempotencyKey:
\* the empty string is falsy
IdempotencyHeader(options) ==
  LET key == effectiveIdempotencyKey(options)
  IN IF key.kind = "explicit" /\ key.corr = << >> THEN NoKey ELSE key

\* n copies of a character
Repeat(ch, n) == [i \in 1..n |-> ch]

\* correlation ids: an execution id, ids that differ in one character outside the
\* header-safe alphabet, an id with no header-safe character, and two ids that are
\* longer than CorrMaxLen and differ after it
CorrelationIds ==
  { <<"1">>, <<"r", ":", "1">>, <<"r", "-", "1">>, <<":">>,
    Repeat("a", CorrMaxLen) \o <<"a">>, Repeat("a", CorrMaxLen) \o <<"b">> }

SignOptions ==
  [method : {"GET", "POST", "DELETE"},
   path : {ProjectsPath, SpacesPath, ItemsPath},
   qs : {Undefined, "q1"},
   body : {Undefined, "b1"},
   correlationId : CorrelationIds,
   idempotencyKey : {NoKey, ExplicitKey(<< >>), ExplicitKey(<<"k">>)}]

Unsigned == [built |-> FALSE, idempotencyKey |-> NoKey, header |-> NoKey]

\* two calls: the second has the method, path, query and explicit key of the first
InitSign ==
  /\ \E a \in SignOptions, c \in CorrelationIds, b \in {Undefined, "b1"} :
       sigCall = <<a, [a EXCEPT !.correlationId = c, !.body = b]>>
  /\ sigOut = <<Unsigned, Unsigned>>
  /\ sigSent = << >>

\* lines 378-397 of call i: the key, the suppression, the header of requestOptions
BuildRequestOptions(i) ==
  /\ ~sigOut[i].built
  /\ sigOut' = [sigOut EXCEPT ![i] = [built |-> TRUE,
                                      idempotencyKey |-> idempotencyKeyOf(sigCall[i]),
                                      header |-> IdempotencyHeader(sigCall[i])]]
  /\ UNCHANGED <<sigCall, sigSent>>
  /\ UNCHANGED <<reqVars, strVars, clsVars, bkVars, crVars, rdVars, sseVars, pathVars, wcVars, fbVars, cfgVars, cidVars>>

\* context.helpers.request(requestOptions) of one attempt of call 1: every attempt
\* sends the same requestOptions object
SendAttempt ==
  /\ sigOut[1].built
  /\ Len(sigSent) < MaxAttemptsBound
  /\ sigSent' = Append(sigSent, sigOut[1].header)
  /\ UNCHANGED <<sigCall, sigOut>>
  /\ UNCHANGED <<reqVars, strVars, clsVars, bkVars, crVars, rdVars, sseVars, pathVars, wcVars, fbVars, cfgVars, cidVars>>

IdleSign ==
  /\ sigCall = << >>
  /\ sigOut = << >>
  /\ sigSent = << >>


(***************************************************************************)
(* The delay before one retry, as a function of the failed attempt, its    *)
(* error and the jitter (lines 541-549).                                   *)
(***************************************************************************)
\* largest attempt number whose retry delay is computed
MaxBackoffAttempt == 7

\* Retry-After headers: absent, integer seconds, an HTTP date given by its distance
\* from now in ms (in the future, in the past), and a value that is neither
RetryAfterHeaders ==
  { NoHeader,
    [kind |-> "seconds", v |-> 0],
    [kind |-> "seconds", v |-> 3],
    [kind |-> "seconds", v |-> 30],
    [kind |-> "date", v |-> 2500],
    [kind |-> "date", v |-> 0 - 5000],
    [kind |-> "junk", v |-> 0] }

\* bodies: none, an error object without retry_after_ms, and with 0, 3000, 20000
BackoffBodies ==
  { NoBody } \cup
  { Body("object", "object", "true", ms, "unavailable") : ms \in {NoNum, 0, 3000, 20000} }

BackoffErrors ==
  { Err(503, 503, Undefined, body, header) :
      body \in BackoffBodies, header \in RetryAfterHeaders }

InitBackoff ==
  /\ bkErr \in BackoffErrors
  /\ bkAttempt \in 1..MaxBackoffAttempt
  /\ bkRandom \in {0, 500, 999}
  /\ bkDelay = NoNum

\* lines 541-549: the delay handed to sleep
ComputeDelay ==
  /\ bkDelay = NoNum
  /\ bkDelay' = delayMsOf(bkErr, bkAttempt, bkRandom)
  /\ UNCHANGED <<bkErr, bkAttempt, bkRandom>>
  /\ UNCHANGED <<reqVars, strVars, clsVars, sigVars, crVars, rdVars, sseVars, pathVars, wcVars, fbVars, cfgVars, cidVars>>

IdleBackoff ==
  /\ bkErr = NoError
  /\ bkAttempt = 0
  /\ bkRandom = 0
  /\ bkDelay = NoNum

(***************************************************************************)
(* Credentials: getKumihoCredentials and lines 356-373 of kumihoRequest.   *)
(* A token is a sequence of characters; the word "Bearer" is one element.  *)
(***************************************************************************)
\* a credential field that is not set
NoToken == <<"undefined">>

\* tokenTrimmed.match(/^Bearer\s+(.+)$/i)?.[1] ?? tokenTrimmed, trimmed
StripBearer(tokenTrimmed) ==
  IF Len(tokenTrimmed) >= 3 /\ tokenTrimmed[1] = "Bearer" /\ tokenTrimmed[2] = " "
  THEN Trim(Tail(tokenTrimmed))
  ELSE tokenTrimmed

\* lines 359-361: the normalized service token
NormalizedServiceToken(serviceToken) == Trim(StripBearer(Trim(serviceToken)))

\* lines 363-365: (userToken ?? '').trim(), Bearer prefix removed
EffectiveUserToken(userToken) ==
  Trim(StripBearer(Trim(IF userToken = NoToken THEN << >> ELSE userToken)))

\* !credentials || !credentials.serviceToken
MissingServiceToken(credentials) ==
  credentials.serviceToken = NoToken \/ credentials.serviceToken = << >>

\* effectiveUserToken && !effectiveUserToken.includes('.')
UserTokenRefused(userToken) ==
  LET effectiveUserToken == EffectiveUserToken(userToken)
  IN effectiveUserToken # << >> /\ ~Includes(effectiveUserToken, ".")

ServiceTokens ==
  { NoToken, << >>, <<" ">>, <<"t">>, <<" ", "t", " ">>,
    <<"Bearer", " ", "t">>, <<"Bearer">> }

UserTokens ==
  { NoToken, << >>, <<" ">>, <<"u">>, <<"Bearer", " ", "u">>,
    <<"a", ".", "b">>, <<"a", ".", "b", ".", "c">>,
    <<"Bearer", " ", "a", ".", "b", ".", "c">>, <<".">>,
    <<"a", ".", "b", ".", "c", ".", "d">> }

InitCreds ==
  /\ crIn \in [serviceToken : ServiceTokens, userToken : UserTokens]
  /\ crPc = "start"
  /\ crNet = 0

\* await getKumihoCredentials(context): throws 'Missing Kumiho service token'
GetCredentials ==
  /\ crPc = "start"
  /\ crPc' = IF MissingServiceToken(crIn) THEN "failed" ELSE "creds"
  /\ UNCHANGED <<crIn, crNet>>
  /\ UNCHANGED <<reqVars, strVars, clsVars, sigVars, bkVars, rdVars, sseVars, pathVars, wcVars, fbVars, cfgVars, cidVars>>

\* lines 358-373: normalize the tokens; throw 'User Token must be a Firebase ID token'
GuardUserToken ==
  /\ crPc = "creds"
  /\ crPc' = IF UserTokenRefused(crIn.userToken) THEN "failed" ELSE "ready"
  /\ UNCHANGED <<crIn, crNet>>
  /\ UNCHANGED <<reqVars, strVars, clsVars, sigVars, bkVars, rdVars, sseVars, pathVars, wcVars, fbVars, cfgVars, cidVars>>

\* the first context.helpers.request(requestOptions)
FirstRequest ==
  /\ crPc = "ready"
  /\ crNet' = crNet + 1
  /\ crPc' = "sent"
  /\ UNCHANGED crIn
  /\ UNCHANGED <<reqVars, strVars, clsVars, sigVars, bkVars, rdVars, sseVars, pathVars, wcVars, fbVars, cfgVars, cidVars>>

IdleCreds ==
  /\ crIn = [serviceToken |-> NoToken, userToken |-> NoToken]
  /\ crPc = "idle"
  /\ crNet = 0

(***************************************************************************)
(* Redaction: the headers of lines 389-396, the raw errors that hold them, *)
(* sanitizeErrorForNodeApiError and the description of toNodeApiError.     *)
(* A header map is a function from header names to values; a value is a   *)
(* sequence of characters.                                                 *)
(***************************************************************************)
Redacted == <<"REDACTED">>

\* key.toLowerCase() for the header names in use
LowerCase(key) ==
  CASE key = "X-Kumiho-Token" -> "x-kumiho-token"
    [] key = "Authorization" -> "authorization"
    [] OTHER -> key

\* (mutation of redactKumihoTokenInHeaders: Authorization is left as it is)
redactKumihoTokenOnly(headers) ==
  [key \in DOMAIN headers |->
     IF LowerCase(key) = "x-kumiho-token" /\ Trim(headers[key]) # << >>
     THEN Redacted ELSE headers[key]]

redactKumihoTokenInHeaders(headers) ==
  [key \in DOMAIN headers |->
     IF /\ LowerCase(key) \in {"x-kumiho-token", "authorization"}
        /\ Trim(headers[key]) # << >>
     THEN Redacted ELSE headers[key]]

\* the payload segment of a JWT-shaped token: token.split('.')[1]
PayloadSegment(token) ==
  LET firstDot == CHOOSE i \in 1..Len(token) :
                    token[i] = "." /\ \A j \in 1..(i - 1) : token[j] # "."
      rest == SubSeq(token, firstDot + 1, Len(token))
  IN IF rest = << >> \/ Head(rest) = "." THEN << >> ELSE <<Head(rest)>>

\* extractTenantIdFromToken: the tenant claim of the payload, if the payload has one
extractTenantIdFromToken(token) ==
  IF ~Includes(token, ".") THEN << >>
  ELSE CASE PayloadSegment(token) = <<"payload-t1">> -> <<"t1">>
         [] PayloadSegment(token) = <<"payload-t2">> -> <<"t2">>
         [] OTHER -> << >>

\* lines 375-377: the tenant id of the credentials, else the one of the service token
TenantIdOf(credentials) ==
  IF Trim(credentials.tenantId) # << >> THEN Trim(credentials.tenantId)
  ELSE extractTenantIdFromToken(NormalizedServiceToken(credentials.serviceToken))

\* lines 389-396 (x-client and x-request-time do not depend on the credentials)
RequestHeaders(credentials) ==
  LET token == NormalizedServiceToken(credentials.serviceToken)
      effectiveUserToken == EffectiveUserToken(credentials.userToken)
      tenantId == TenantIdOf(credentials)
      names == {"X-Kumiho-Token", "x-correlation-id"}
                 \cup (IF effectiveUserToken # << >> THEN {"Authorization"} ELSE {})
                 \cup (IF tenantId # << >> THEN {"x-tenant-id"} ELSE {})
  IN [key \in names |->
        CASE key = "X-Kumiho-Token" -> token
          [] key = "Authorization" -> <<"Bearer", " ">> \o effectiveUserToken
          [] key = "x-tenant-id" -> tenantId
          [] OTHER -> <<"corr-1">>]

\* lines 409-417: the parts of the description that depend on the credentials
requestContextParts(credentials) ==
  [tenant_header |-> TenantIdOf(credentials) # << >>,
   user_token |-> EffectiveUserToken(credentials.userToken) # << >>,
   service_token_jwt |-> Includes(NormalizedServiceToken(credentials.serviceToken), ".")]

EmptyHeaders == [key \in {} |-> << >>]

\* what the server's response headers are; a server may echo the token header
ResponseHeaders(credentials, echo) ==
  [key \in {"content-type"} \cup (IF echo THEN {"x-kumiho-token"} ELSE {}) |->
     IF key = "content-type" THEN <<"json">>
     ELSE NormalizedServiceToken(credentials.serviceToken)]

\* the error one attempt rejects with, by the library style that built it, or the
\* error kumihoRequest builds when the budget is used up (lines 491-505)
RawErrorOf(raw, credentials) ==
  LET sent == RequestHeaders(credentials)
      received == ResponseHeaders(credentials, raw.echo)
  IN CASE raw.style = "statusCodeError" ->
            [statusCode |-> 500, code |-> Undefined,
             options |-> sent, responseRequest |-> sent, responseHeaders |-> received,
             config |-> EmptyHeaders, request |-> EmptyHeaders]
       [] raw.style = "requestError" ->
            [statusCode |-> NoNum, code |-> "ECONNRESET",
             options |-> sent, responseRequest |-> EmptyHeaders,
             responseHeaders |-> EmptyHeaders,
             config |-> EmptyHeaders, request |-> EmptyHeaders]
       [] raw.style = "axios" ->
            [statusCode |-> 500, code |-> Undefined,
             options |-> EmptyHeaders, responseRequest |-> EmptyHeaders,
             responseHeaders |-> received, config |-> sent, request |-> sent]
       [] OTHER ->
            [statusCode |-> BudgetExceededStatus, code |-> Undefined,
             options |-> EmptyHeaders, responseRequest |-> EmptyHeaders,
             responseHeaders |-> EmptyHeaders,
             config |-> EmptyHeaders, request |-> EmptyHeaders]

sanitizeErrorForNodeApiError(err) ==
  [err EXCEPT !.options = redactKumihoTokenInHeaders(@),
              !.responseRequest = redactKumihoTokenInHeaders(@),
              !.responseHeaders = redactKumihoTokenInHeaders(@),
              !.config = redactKumihoTokenInHeaders(@),
              !.request = redactKumihoTokenInHeaders(@)]

\* toNodeApiError with the parts of the description that come from the credentials
NodeApiErrorOf(err, credentials) ==
  LET sanitizedError == sanitizeErrorForNodeApiError(err)
  IN [kind |-> "thrown",
      description |-> [status |-> sanitizedError.statusCode,
                       context |-> requestContextParts(credentials)],
      cause |-> sanitizedError]

RedactServiceTokens ==
  { <<"s1">>, <<"s2">>,
    <<"h", ".", "payload-t1", ".", "g1">>,
    <<"h", ".", "payload-t1", ".", "g2">>,
    <<"h", ".", "payload-x", ".", "g1">> }

RedactCredentials ==
  [serviceToken : RedactServiceTokens,
   userToken : {NoToken, <<"a", ".", "b", ".", "c">>, <<"d", ".", "e", ".", "f">>},
   tenantId : {<< >>, <<"t1">>}]

RawErrorShapes ==
  [style : {"statusCodeError", "requestError", "axios", "budget"}, echo : BOOLEAN]

NotThrown == [kind |-> "none"]

InitRedact ==
  /\ rdCreds \in [1..2 -> RedactCredentials]
  /\ rdRaw \in RawErrorShapes
  /\ rdThrown = <<NotThrown, NotThrown>>

\* run i gives up: throw toNodeApiError(err)
ThrowError(i) ==
  /\ rdThrown[i] = NotThrown
  /\ rdThrown' = [rdThrown EXCEPT ![i] = NodeApiErrorOf(RawErrorOf(rdRaw, rdCreds[i]), rdCreds[i])]
  /\ UNCHANGED <<rdCreds, rdRaw>>
  /\ UNCHANGED <<reqVars, strVars, clsVars, sigVars, bkVars, crVars, sseVars, pathVars, wcVars, fbVars, cfgVars, cidVars>>

IdleRedact ==
  /\ rdCreds = << >>
  /\ rdRaw = [style |-> "none", echo |-> FALSE]
  /\ rdThrown = << >>

(***************************************************************************)
(* The SSE parser of connectSse (lines 304-337): buffer, flush, read loop. *)
(* Text is a sequence of characters; LF and CR are the characters "\n" and *)
(* "\r".                                                                   *)
(***************************************************************************)
LF == "\n"
CR == "\r"
DataPrefix == <<"d", "a", "t", "a", ":">>

\* what \s matches among the characters in use (a line holds no LF)
WhitespaceChars == {" ", CR, LF}

\* buffer.replace(/\r\n/g, '\n')
RECURSIVE ReplaceCrLf(_)
ReplaceCrLf(text) ==
  IF Len(text) < 2 THEN text
  ELSE IF text[1] = CR /\ text[2] = LF
       THEN <<LF>> \o ReplaceCrLf(SubSeq(text, 3, Len(text)))
       ELSE <<text[1]>> \o ReplaceCrLf(Tail(text))

\* buffer.indexOf('\n\n'), counted from 1; 0: not found
IndexOfBoundary(text) ==
  LET hits == {i \in 1..(Len(text) - 1) : text[i] = LF /\ text[i + 1] = LF}
  IN IF hits = {} THEN 0 ELSE CHOOSE i \in hits : \A j \in hits : i <= j

\* rawEvent.split('\n')
RECURSIVE SplitLines(_)
SplitLines(text) ==
  LET hits == {i \in 1..Len(text) : text[i] = LF}
  IN IF hits = {} THEN <<text>>
     ELSE LET first == CHOOSE i \in hits : \A j \in hits : i <= j
          IN <<SubSeq(text, 1, first - 1)>>
               \o SplitLines(SubSeq(text, first + 1, Len(text)))

\* line.replace(/^\s*/, '')
RECURSIVE StripLeadingWhitespace(_)
StripLeadingWhitespace(line) ==
  IF line # << >> /\ Head(line) \in WhitespaceChars
  THEN StripLeadingWhitespace(Tail(line))
  ELSE line

\* dataLines.map(...).join('\n')
RECURSIVE JoinLines(_)
JoinLines(lines) ==
  IF lines = << >> THEN << >>
  ELSE IF Len(lines) = 1 THEN lines[1]
  ELSE lines[1] \o <<LF>> \o JoinLines(Tail(lines))

\* lines 318-327 for one rawEvent: the payloads (none or one) handed to onMessage
FramePayloads(rawEvent) ==
  LET lines == SplitLines(rawEvent)
      dataLines == SelectSeq(lines, LAMBDA line : StartsWith(line, DataPrefix))
      data == JoinLines([k \in 1..Len(dataLines) |->
                           StripLeadingWhitespace(
                             SubSeq(dataLines[k], Len(DataPrefix) + 1, Len(dataLines[k])))])
  IN IF dataLines = << >> \/ data = << >> THEN << >> ELSE <<data>>

\* the while loop of flush on a buffer whose CRLF are replaced already
RECURSIVE FlushFrames(_)
FlushFrames(text) ==
  LET splitIndex == IndexOfBoundary(text)
  IN IF splitIndex = 0 THEN [buffer |-> text, payloads |-> << >>]
     ELSE LET rest == FlushFrames(SubSeq(text, splitIndex + 2, Len(text)))
          IN [buffer |-> rest.buffer,
              payloads |-> FramePayloads(SubSeq(text, 1, splitIndex - 1)) \o rest.payloads]

\* flush: the buffer left and the payloads handed to onMessage
flush(text) == FlushFrames(ReplaceCrLf(text))

\* number of pieces a stream is put together from
MaxSsePieces == 6

SsePieces == {DataPrefix, <<"x">>, <<" ">>, <<LF>>, <<CR>>}

RECURSIVE Concat(_)
Concat(pieces) == IF pieces = << >> THEN << >> ELSE Head(pieces) \o Concat(Tail(pieces))

SseStreams ==
  { Concat(pieces) : pieces \in UNION { [1..n -> SsePieces] : n \in 1..MaxSsePieces } }

InitSse ==
  /\ sseStream \in SseStreams
  /\ ssePos = 0
  /\ sseBuffer = << >>
  /\ ssePayloads = << >>
  /\ sseDone = FALSE

\* reader.read() resolves with a chunk of any size: buffer += decode(value); flush()
ReadSseChunk ==
  /\ ~sseDone
  /\ \E n \in 1..(Len(sseStream) - ssePos) :
       LET out == flush(sseBuffer \o SubSeq(sseStream, ssePos + 1, ssePos + n))
       IN /\ ssePos' = ssePos + n
          /\ sseBuffer' = out.buffer
          /\ ssePayloads' = ssePayloads \o out.payloads
  /\ UNCHANGED <<sseStream, sseDone>>
  /\ UNCHANGED <<reqVars, strVars, clsVars, sigVars, bkVars, crVars, rdVars, pathVars, wcVars, fbVars, cfgVars, cidVars>>

\* reader.read() resolves with done after the last chunk: the loop is left
ReadSseDone ==
  /\ ~sseDone
  /\ ssePos = Len(sseStream)
  /\ sseDone' = TRUE
  /\ UNCHANGED <<sseStream, ssePos, sseBuffer, ssePayloads>>
  /\ UNCHANGED <<reqVars, strVars, clsVars, sigVars, bkVars, crVars, rdVars, pathVars, wcVars, fbVars, cfgVars, cidVars>>

IdleSse ==
  /\ sseStream = << >>
  /\ ssePos = 0
  /\ sseBuffer = << >>
  /\ ssePayloads = << >>
  /\ sseDone = FALSE

(***************************************************************************)
(* The subtree stage alone: matchesContextPath applied to one path filter  *)
(* and one parsed event.  An event without a kref (or a parsed value that   *)
(* is no object) has the empty kref: the code answers alike for both.      *)
(***************************************************************************)
\* values of the node parameter Path Filter
ContextPaths ==
  { << >>,
    <<" ">>,
    <<"p", "/", "s">>,
    <<"/", "p", "/", "s", "/">>,
    <<"kref://", "p", "/", "s">>,
    <<"kref://", "p", "/", "s", "/", "*", "*">>,
    <<"kref://", "p", "/", "*", "/", "*", "*">>,
    <<"p", "/", "s", "/", "*", "*">>,
    <<"kref://", "p", "/", "s", "*">>,
    <<"kref://", "p", "/", "?">>,
    <<"*">>,
    <<"/", "*", "*">> }

\* the kref of the event (empty: the event has none)
EventKrefs ==
  { << >>,
    <<"kref://", "p">>,
    <<"kref://", "p", "/", "s">>,
    <<"kref://", "p", "/", "s", "/", "x">>,
    <<"kref://", "p", "/", "s", "/", "x", "/", "y">>,
    <<"kref://", "p", "/", "s", "2">>,
    <<"kref://", "p", "/", "s", "2", "/", "x">>,
    <<"kref://", "q", "/", "s">>,
    <<"p", "/", "s", "/", "x">> }

InitPath ==
  /\ cpPath \in ContextPaths
  /\ cpEvent \in { [valid |-> TRUE, kref |-> k, hasCursor |-> FALSE] : k \in EventKrefs }
  /\ cpOut = "pending"

\* if (!matchesContextPath(event, contextPath)) return;
FilterByContextPath ==
  /\ cpOut = "pending"
  /\ cpOut' = IF matchesContextPath(cpEvent, cpPath) THEN "pass" ELSE "drop"
  /\ UNCHANGED <<cpPath, cpEvent>>
  /\ UNCHANGED <<reqVars, strVars, clsVars, sigVars, bkVars, crVars, rdVars, sseVars, wcVars, fbVars, cfgVars, cidVars>>

IdlePath ==
  /\ cpPath = << >>
  /\ cpEvent = [valid |-> FALSE, kref |-> << >>, hasCursor |-> FALSE]
  /\ cpOut = "idle"

(***************************************************************************)
(* matchesWildcardPattern applied to one value and one pattern.            *)
(***************************************************************************)
\* longest value and pattern drawn from the alphabets
MaxPatternLen == 3

SeqsUpTo(chars, n) == UNION {[1..k -> chars] : k \in 0..n}

\* the routing key item.image.created and the item kind image, abbreviated
WildcardValues ==
  SeqsUpTo({"a", "b", "."}, MaxPatternLen)
    \cup { <<"i", "m", "a", "g", "e">>, <<"i", ".", "i", "m", "g", ".", "c">> }

\* the patterns im* and item.*.created, abbreviated likewise
WildcardPatterns ==
  SeqsUpTo({"a", ".", "*", "?"}, MaxPatternLen)
    \cup { <<"i", "m", "*">>, <<"i", ".", "*", ".", "c">>, <<" ", "a", "*">>,
           <<"a", Backslash, "*">>, <<"a", "+">> }

InitWildcard ==
  /\ wcValue \in WildcardValues
  /\ wcPattern \in WildcardPatterns
  /\ wcOut = "pending"

\* one evaluation of matchesWildcardPattern(value, pattern)
MatchPattern ==
  /\ wcOut = "pending"
  /\ wcOut' = matchesWildcardPattern(wcValue, wcPattern)
  /\ UNCHANGED <<wcValue, wcPattern>>
  /\ UNCHANGED <<reqVars, strVars, clsVars, sigVars, bkVars, crVars, rdVars, sseVars, pathVars, fbVars, cfgVars, cidVars>>

IdleWildcard ==
  /\ wcValue = << >>
  /\ wcPattern = << >>
  /\ wcOut = "idle"

(***************************************************************************)
(* Project Create and Space Create of the action node: the POST is the     *)
(* kumihoRequest call modelled above, given no options (maxAttempts 5,      *)
(* retryBudgetMs 60000); on a 500, 502, 503 or 504 error the node calls    *)
(* kumihoRequest once more for a GET with maxAttempts: 1.                   *)
(***************************************************************************)
DefaultMaxAttempts == 5
FallbackMaxAttempts == 1

\* [500, 502, 503, 504].includes(httpCode), httpCode = Number(err.httpCode ?? err.kumiho.status_code)
FallbackStatuses == {500, 502, 503, 504}

httpCodeOf(error) == error.status_code

InitCreate ==
  /\ rpc = "loop"
  /\ attempt = 1
  /\ maxAttempts = DefaultMaxAttempts
  /\ retryBudgetMs = DefaultRetryBudgetMs
  /\ elapsed = 0
  /\ lastError = NoError
  /\ delayMs = 0
  /\ result = NoResult
  /\ attemptsMade = 0
  /\ statuses = << >>
  /\ fbPc = "create"
  /\ fbGets = 0
  /\ fbOut = "none"

\* the POST returned: out.push(data); continue
CreateSucceeds ==
  /\ fbPc = "create"
  /\ rpc = "returned"
  /\ fbPc' = "output"
  /\ fbOut' = "created"
  /\ UNCHANGED fbGets
  /\ UNCHANGED <<reqVars, strVars, clsVars, sigVars, bkVars, crVars, rdVars, sseVars, pathVars, wcVars, cfgVars, cidVars>>

\* the POST threw: the catch starts the GET on a fallback status, else rethrows
CreateFails ==
  /\ fbPc = "create"
  /\ rpc = "thrown"
  /\ IF httpCodeOf(result) \in FallbackStatuses
     THEN fbPc' = "get" /\ fbGets' = 1 /\ fbOut' = fbOut
     ELSE fbPc' = "thrown" /\ fbGets' = fbGets /\ fbOut' = "createError"
  /\ UNCHANGED <<reqVars, strVars, clsVars, sigVars, bkVars, crVars, rdVars, sseVars, pathVars, wcVars, cfgVars, cidVars>>

\* the GET returned: out.push(existing); continue
FallbackGetSucceeds ==
  /\ fbPc = "get"
  /\ fbPc' = "output"
  /\ fbOut' = "existing"
  /\ UNCHANGED fbGets
  /\ UNCHANGED <<reqVars, strVars, clsVars, sigVars, bkVars, crVars, rdVars, sseVars, pathVars, wcVars, cfgVars, cidVars>>

\* the inner catch is empty and `throw error` rethrows the error of the POST
FallbackError == "createError"

\* a request of the GET failed: kumihoRequest retries while attempt < maxAttempts,
\* else throws into the inner catch
FallbackGetFails ==
  /\ fbPc = "get"
  /\ \E err \in RawErrors :
       IF ~shouldRetry(err) \/ fbGets = FallbackMaxAttempts
       THEN fbPc' = "thrown" /\ fbOut' = FallbackError /\ fbGets' = fbGets
       ELSE fbPc' = "get" /\ fbOut' = fbOut /\ fbGets' = fbGets + 1
  /\ UNCHANGED <<reqVars, strVars, clsVars, sigVars, bkVars, crVars, rdVars, sseVars, pathVars, wcVars, cfgVars, cidVars>>

IdleCreate ==
  /\ fbPc = "idle"
  /\ fbGets = 0
  /\ fbOut = "none"

(***************************************************************************)
(* The timeout and the retry budget kumihoRequest works with, as a          *)
(* function of the call's options and of the process environment.           *)
(***************************************************************************)
\* value ?? fallback, undefined being NoNum
Coalesce(value, fallback) == IF value # NoNum THEN value ELSE fallback

\* timeout: options.timeoutMs ?? 60000
requestTimeoutOf(options, env) == Coalesce(options.timeoutMs, DefaultTimeoutMs)

\* const retryBudgetMs = options.retryBudgetMs ?? 60000
retryBudgetMsOf(options, env) == Coalesce(options.retryBudgetMs, DefaultRetryBudgetMs)

EnvSettings == {NoNum, 5000, 120000}
CallOverrides == {NoNum, 15000, 90000}

InitConfig ==
  /\ cfgEnv \in [timeoutMs : EnvSettings, retryBudgetMs : EnvSettings]
  /\ cfgOptions \in [timeoutMs : CallOverrides, retryBudgetMs : CallOverrides]
  /\ cfgOut = [timeout |-> NoNum, retryBudgetMs |-> NoNum]

\* kumihoRequest builds requestOptions (line 406) and fixes the budget (line 420)
ResolveTimeouts ==
  /\ cfgOut.timeout = NoNum
  /\ cfgOut' = [timeout |-> requestTimeoutOf(cfgOptions, cfgEnv),
                retryBudgetMs |-> retryBudgetMsOf(cfgOptions, cfgEnv)]
  /\ UNCHANGED <<cfgEnv, cfgOptions>>
  /\ UNCHANGED <<reqVars, strVars, clsVars, sigVars, bkVars, crVars, rdVars, sseVars, pathVars, wcVars, fbVars, cidVars>>

IdleConfig ==
  /\ cfgEnv = [timeoutMs |-> NoNum, retryBudgetMs |-> NoNum]
  /\ cfgOptions = [timeoutMs |-> NoNum, retryBudgetMs |-> NoNum]
  /\ cfgOut = [timeout |-> 0, retryBudgetMs |-> 0]

(***************************************************************************)
(* The correlation id of a call and the headers of its attempts: two calls  *)
(* made with the same context.  A call's correlationId option is NoToken    *)
(* when the caller gives none.                                              *)
(***************************************************************************)
\* the value of the k-th randomUUID() call: each call gives a value not seen before
UuidDigits == <<"a", "b", "r", "1">>
randomUUID(k) == <<"a", "a", UuidDigits[((k - 1) % Len(UuidDigits)) + 1]>>

\* value !== undefined && value !== null && String(value).trim()
ExecutionIdUsable(executionId) == executionId # NoToken /\ Trim(executionId) # << >>

\* (mutation of getCorrelationId: the execution id is not looked at)
getCorrelationIdRandomOnly(executionId, uuid) == uuid

\* getCorrelationId(context); uuid is what randomUUID() would return now
getCorrelationId(executionId, uuid) ==
  IF ExecutionIdUsable(executionId) THEN executionId ELSE uuid

\* options.correlationId ?? getCorrelationId(context)
correlationIdOf(options, executionId, uuid) ==
  IF options.correlationId # NoToken THEN options.correlationId
  ELSE getCorrelationId(executionId, uuid)

\* randomUUID() is called by this call
DrawsUuid(options, executionId) ==
  options.correlationId = NoToken /\ ~ExecutionIdUsable(executionId)

\* the headers object of lines 389-397, as far as the correlation id and the
\* idempotency key go
HeadersOf(options, executionId, uuid) ==
  LET correlationId == correlationIdOf(options, executionId, uuid)
  IN [correlationId |-> correlationId,
      idempotencyKey |-> IdempotencyHeader([options EXCEPT !.correlationId = correlationId])]

NoHeaders == [correlationId |-> NoToken, idempotencyKey |-> NoKey]

ExecutionIds == {NoToken, <<"1">>, <<" ">>}

CallOptions ==
  [method : {"GET", "POST"},
   path : {ProjectsPath, ItemsPath},
   qs : {Undefined},
   body : {Undefined, "b1"},
   correlationId : {NoToken, <<"r", "1">>},
   idempotencyKey : {NoKey, ExplicitKey(<<"k">>)}]

InitCorrelation ==
  /\ cidExec \in ExecutionIds
  /\ cidCall \in [1..2 -> CallOptions]
  /\ cidOut = [i \in 1..2 |-> NoHeaders]
  /\ cidSent = [i \in 1..2 |-> << >>]
  /\ cidUuids = 0

\* lines 358-407 of call i: the correlation id, the key and the headers are computed
\* once, before the retry loop
BuildHeaders(i) ==
  /\ cidOut[i] = NoHeaders
  /\ cidOut' = [cidOut EXCEPT ![i] = HeadersOf(cidCall[i], cidExec, randomUUID(cidUuids + 1))]
  /\ cidUuids' = IF DrawsUuid(cidCall[i], cidExec) THEN cidUuids + 1 ELSE cidUuids
  /\ UNCHANGED <<cidExec, cidCall, cidSent>>
  /\ UNCHANGED <<reqVars, strVars, clsVars, sigVars, bkVars, crVars, rdVars, sseVars, pathVars, wcVars, fbVars, cfgVars>>

\* (mutation of AttemptHeaders: the headers are built anew for every attempt)
AttemptHeadersRebuilt(i) ==
  HeadersOf(cidCall[i], cidExec, randomUUID(cidUuids + Len(cidSent[i]) + 1))

\* the headers of requestOptions, the object every attempt of call i passes to
\* context.helpers.request
AttemptHeaders(i) == cidOut[i]

\* one attempt of call i: context.helpers.request(requestOptions)
SendRequest(i) ==
  /\ cidOut[i] # NoHeaders
  /\ Len(cidSent[i]) < MaxAttemptsBound
  /\ cidSent' = [cidSent EXCEPT ![i] = Append(cidSent[i], AttemptHeaders(i))]
  /\ UNCHANGED <<cidExec, cidCall, cidOut, cidUuids>>
  /\ UNCHANGED <<reqVars, strVars, clsVars, sigVars, bkVars, crVars, rdVars, sseVars, pathVars, wcVars, fbVars, cfgVars>>

IdleCorrelation ==
  /\ cidExec = NoToken
  /\ cidCall = << >>
  /\ cidOut = << >>
  /\ cidSent = << >>
  /\ cidUuids = 0

(***************************************************************************)
(* Specifications: each runs one part and holds the others idle.           *)
(***************************************************************************)
IdleRequest ==
  /\ rpc = "idle"
  /\ attempt = 0
  /\ maxAttempts = 0
  /\ retryBudgetMs = 0
  /\ elapsed = 0
  /\ lastError = NoError
  /\ delayMs = 0
  /\ result = NoResult
  /\ attemptsMade = 0
  /\ statuses = << >>

IdleTrigger ==
  /\ pc = "idle"
  /\ isStopped = FALSE
  /\ cursor = 0
  /\ staticCursor = 0
  /\ advancedCursor = 0
  /\ urlCursor = 0
  /\ srvPos = 0
  /\ pending = << >>
  /\ emitted = << >>
  /\ stream = << >>
  /\ checkpoints = << >>
  /\ startCursor = 0
  /\ firstCursor = 0
  /\ connects = 0
  /\ crashes = 0
  /\ abortController = "undefined"
  /\ connOpen = FALSE
  /\ itemKindFilter = << >>
  /\ sinkFailures = 0

IdleClassify ==
  /\ clsErr = NoError
  /\ clsOut = "idle"

IdleAux ==
  /\ IdleSign
  /\ IdleBackoff
  /\ IdleCreds
  /\ IdleRedact
  /\ IdleSse
  /\ IdlePath
  /\ IdleWildcard
  /\ IdleCreate
  /\ IdleConfig
  /\ IdleCorrelation

InitRequestSpec == InitRequest /\ IdleTrigger /\ IdleClassify /\ IdleAux

NextRequest ==
  \/ BudgetExceeded
  \/ StartAttempt
  \/ RequestSucceeds
  \/ RequestFails
  \/ BackoffDone

SpecRequest == InitRequestSpec /\ [][NextRequest]_vars

InitClassifySpec == InitClassify /\ IdleRequest /\ IdleTrigger /\ IdleAux

NextClassify == Classify

SpecClassify == InitClassifySpec /\ [][NextClassify]_vars

InitTriggerSpec == InitTrigger /\ IdleRequest /\ IdleClassify /\ IdleAux

NextTrigger ==
  \/ CredsOk
  \/ CredsFail
  \/ HeadersOk
  \/ HeadersFail
  \/ FetchOk
  \/ FetchNotOk
  \/ ConnectionError
  \/ ReadDone
  \/ ReadChunk
  \/ OnMessage
  \/ Emit
  \/ EmitThrows
  \/ ReconnectDelayDone
  \/ closeFunction
  \/ CrashRestart

SpecTrigger == InitTriggerSpec /\ [][NextTrigger]_vars

\* one trigger instance in a process that does not crash.  Every await of streamLoop
\* settles (the credential and header lookups, fetch, reader.read(), which rejects
\* once its signal is aborted, and sleep) and the synchronous code after it runs, so
\* a step of the loop that stays possible is taken; nothing obliges closeFunction
LoopStep ==
  \/ CredsOk
  \/ CredsFail
  \/ HeadersOk
  \/ HeadersFail
  \/ FetchOk
  \/ FetchNotOk
  \/ ConnectionError
  \/ ReadDone
  \/ ReadChunk
  \/ OnMessage
  \/ Emit
  \/ EmitThrows
  \/ ReconnectDelayDone

NextTriggerLive ==
  \/ LoopStep
  \/ closeFunction

\* the streams of the liveness specification: events that pass every filter and
\* events of another item kind, on a node that starts without a stored cursor
InitTriggerLive ==
  /\ InitTriggerSpec
  /\ \A i \in 1..StreamLen : stream[i].valid /\ stream[i].hasCursor
                             /\ stream[i].kref \in {KrefInside, KrefOtherKind}
                             /\ stream[i].routing_key = RoutingKeyNamed
  /\ advancedCursor = 0
  /\ staticCursor = 0

SpecTriggerLive == InitTriggerLive /\ [][NextTriggerLive]_vars /\ WF_vars(LoopStep)

InitSignSpec ==
  /\ InitSign
  /\ IdleRequest
  /\ IdleTrigger
  /\ IdleClassify
  /\ IdleBackoff
  /\ IdleCreds
  /\ IdleRedact
  /\ IdleSse
  /\ IdlePath
  /\ IdleWildcard
  /\ IdleCreate
  /\ IdleConfig
  /\ IdleCorrelation

NextSign ==
  \/ \E i \in 1..2 : BuildRequestOptions(i)
  \/ SendAttempt

SpecSign == InitSignSpec /\ [][NextSign]_vars

InitBackoffSpec ==
  /\ InitBackoff
  /\ IdleRequest
  /\ IdleTrigger
  /\ IdleClassify
  /\ IdleSign
  /\ IdleCreds
  /\ IdleRedact
  /\ IdleSse
  /\ IdlePath
  /\ IdleWildcard
  /\ IdleCreate
  /\ IdleConfig
  /\ IdleCorrelation

NextBackoff ==
  ComputeDelay

SpecBackoff == InitBackoffSpec /\ [][NextBackoff]_vars

InitCredsSpec ==
  /\ InitCreds
  /\ IdleRequest
  /\ IdleTrigger
  /\ IdleClassify
  /\ IdleSign
  /\ IdleBackoff
  /\ IdleRedact
  /\ IdleSse
  /\ IdlePath
  /\ IdleWildcard
  /\ IdleCreate
  /\ IdleConfig
  /\ IdleCorrelation

NextCreds ==
  \/ GetCredentials
  \/ GuardUserToken
  \/ FirstRequest

SpecCreds == InitCredsSpec /\ [][NextCreds]_vars

InitRedactSpec ==
  /\ InitRedact
  /\ IdleRequest
  /\ IdleTrigger
  /\ IdleClassify
  /\ IdleSign
  /\ IdleBackoff
  /\ IdleCreds
  /\ IdleSse
  /\ IdlePath
  /\ IdleWildcard
  /\ IdleCreate
  /\ IdleConfig
  /\ IdleCorrelation

NextRedact ==
  \E i \in 1..2 : ThrowError(i)

SpecRedact == InitRedactSpec /\ [][NextRedact]_vars

InitSseSpec ==
  /\ InitSse
  /\ IdleRequest
  /\ IdleTrigger
  /\ IdleClassify
  /\ IdleSign
  /\ IdleBackoff
  /\ IdleCreds
  /\ IdleRedact
  /\ IdlePath
  /\ IdleWildcard
  /\ IdleCreate
  /\ IdleConfig
  /\ IdleCorrelation

NextSse ==
  \/ ReadSseChunk
  \/ ReadSseDone

SpecSse == InitSseSpec /\ [][NextSse]_vars

InitPathSpec ==
  /\ InitPath
  /\ IdleRequest
  /\ IdleTrigger
  /\ IdleClassify
  /\ IdleSign
  /\ IdleBackoff
  /\ IdleCreds
  /\ IdleRedact
  /\ IdleSse
  /\ IdleWildcard
  /\ IdleCreate
  /\ IdleConfig
  /\ IdleCorrelation

NextPath ==
  FilterByContextPath

SpecPath == InitPathSpec /\ [][NextPath]_vars

InitWildcardSpec ==
  /\ InitWildcard
  /\ IdleRequest
  /\ IdleTrigger
  /\ IdleClassify
  /\ IdleSign
  /\ IdleBackoff
  /\ IdleCreds
  /\ IdleRedact
  /\ IdleSse
  /\ IdlePath
  /\ IdleCreate
  /\ IdleConfig
  /\ IdleCorrelation

NextWildcard ==
  MatchPattern

SpecWildcard == InitWildcardSpec /\ [][NextWildcard]_vars

InitCreateSpec ==
  /\ InitCreate
  /\ IdleTrigger
  /\ IdleClassify
  /\ IdleSign
  /\ IdleBackoff
  /\ IdleCreds
  /\ IdleRedact
  /\ IdleSse
  /\ IdlePath
  /\ IdleWildcard
  /\ IdleConfig
  /\ IdleCorrelation

NextCreate ==
  \/ BudgetExceeded
  \/ StartAttempt
  \/ RequestSucceeds
  \/ RequestFails
  \/ BackoffDone
  \/ CreateSucceeds
  \/ CreateFails
  \/ FallbackGetSucceeds
  \/ FallbackGetFails

SpecCreate == InitCreateSpec /\ [][NextCreate]_vars

InitConfigSpec ==
  /\ InitConfig
  /\ IdleRequest
  /\ IdleTrigger
  /\ IdleClassify
  /\ IdleSign
  /\ IdleBackoff
  /\ IdleCreds
  /\ IdleRedact
  /\ IdleSse
  /\ IdlePath
  /\ IdleWildcard
  /\ IdleCreate
  /\ IdleCorrelation

NextConfig ==
  ResolveTimeouts

SpecConfig == InitConfigSpec /\ [][NextConfig]_vars

InitCorrelationSpec ==
  /\ InitCorrelation
  /\ IdleRequest
  /\ IdleTrigger
  /\ IdleClassify
  /\ IdleSign
  /\ IdleBackoff
  /\ IdleCreds
  /\ IdleRedact
  /\ IdleSse
  /\ IdlePath
  /\ IdleWildcard
  /\ IdleCreate
  /\ IdleConfig

NextCorrelation ==
  \/ \E i \in 1..2 : BuildHeaders(i)
  \/ \E i \in 1..2 : SendRequest(i)

SpecCorrelation == InitCorrelationSpec /\ [][NextCorrelation]_vars

(***************************************************************************)
(* Properties of kumihoRequest (SpecRequest).                              *)
(***************************************************************************)
BudgetCode == "client_retry_budget_exceeded"
ThrownOverBudget == rpc = "thrown" /\ result.code = BudgetCode
LastStatus == statuses[Len(statuses)]

\* C1: within the retry budget the call stops at the first attempt that returns a
\* response or fails non-retryably, or at attempt maxAttempts, and returns or raises
\* that attempt's outcome: it never makes more than maxAttempts attempts, it goes on
\* to a backoff sleep only after a retryable failure with attempts left, every
\* attempt before the last one failed, a returned call returns the last attempt's
\* response, and a call that raises an upstream error raises the last attempt's error
\* after a non-retryable failure or after exactly maxAttempts attempts.
C1_StopsAtFirstDecisiveAttempt ==
  /\ attemptsMade <= maxAttempts
  /\ \A k \in 1..(Len(statuses) - 1) : statuses[k] # 200
  /\ rpc = "sleep" =>
       /\ attempt = attemptsMade /\ attempt < maxAttempts
       /\ Len(statuses) = attemptsMade
       /\ (retryableFromBody(lastError) \/ retryableByStatus(lastError)
             \/ retryableByNetwork(lastError))
  /\ rpc = "returned" =>
       /\ Len(statuses) = attemptsMade /\ LastStatus = 200
       /\ result.kind = "returned" /\ result.value \in Responses
  /\ (rpc = "thrown" /\ ~ThrownOverBudget) =>
       /\ Len(statuses) = attemptsMade
       /\ result.cause = lastError
       /\ result.status_code = LastStatus
       /\ \/ ~(retryableFromBody(lastError) \/ retryableByStatus(lastError)
                 \/ retryableByNetwork(lastError))
          \/ attemptsMade = maxAttempts

\* two retryable 503 failures, then a 200: returned after exactly 3 attempts
C1_Witness ==
  /\ rpc = "returned"
  /\ statuses = <<503, 503, 200>>
  /\ attemptsMade = 3
  /\ result.value.kind = "object" /\ ~result.wrapped

\* C2: when the time elapsed at the start of an attempt exceeds retryBudgetMs, the
\* call makes no further attempt and raises the synthetic error with code
\* client_retry_budget_exceeded (status 408), not the last upstream error.
C2_BudgetExceededIsSynthetic ==
  [][(rpc = "loop" /\ elapsed > retryBudgetMs) =>
       /\ rpc' = "thrown"
       /\ attemptsMade' = attemptsMade
       /\ result'.code = BudgetCode
       /\ result'.status_code = BudgetExceededStatus
       /\ ~result'.retryable
       /\ result'.cause # lastError]_vars

\* the budget error is raised after two 503 failures
C2_Witness ==
  /\ ThrownOverBudget
  /\ statuses = <<503, 503>>
  /\ StatusCodeOf(lastError) = 503
  /\ result.status_code = BudgetExceededStatus

\* C3: the time from the start of the call to its return or throw never exceeds
\* retryBudgetMs, and a backoff sleep is started only while the budget is not
\* exhausted.
C3_BudgetBoundsWholeCall ==
  /\ rpc \in {"returned", "thrown"} => elapsed <= retryBudgetMs
  /\ rpc = "sleep" => ~(elapsed > retryBudgetMs)

(***************************************************************************)
(* Properties of the classification (SpecClassify).                        *)
(***************************************************************************)
\* the HTTP status of a raw error, from the error or from its response
HttpStatus(err) ==
  IF err.statusCode # NoNum THEN err.statusCode ELSE err.respStatusCode

\* C4: a failed attempt is classified retryable if and only if its body is an object
\* (given as such or as JSON text) whose `error` object has retryable: true, or its
\* HTTP status is 429 or at least 500, or it has no HTTP status and its transport
\* code is one of ETIMEDOUT, ECONNRESET, EPIPE, ENOTFOUND, EAI_AGAIN, ECONNABORTED.
C4_RetryableIff ==
  clsOut \in {"retry", "raise"} =>
    (clsOut = "retry" <=>
       \/ /\ clsErr.body.kind \in {"object", "json"}
          /\ clsErr.body.error = "object"
          /\ clsErr.body.retryable = "true"
       \/ HttpStatus(clsErr) = 429
       \/ HttpStatus(clsErr) >= 500
       \/ /\ HttpStatus(clsErr) = NoNum
          /\ clsErr.code \in {"ETIMEDOUT", "ECONNRESET", "EPIPE", "ENOTFOUND",
                               "EAI_AGAIN", "ECONNABORTED"})

\* a 400 whose body says retryable: true is retried
C4_Witness ==
  /\ clsOut = "retry"
  /\ clsErr.statusCode = 400 /\ clsErr.respStatusCode = NoNum
  /\ clsErr.body.error = "object" /\ clsErr.body.retryable = "true"
  /\ clsErr.body.kind = "json"

(***************************************************************************)
(* Properties of the event trigger (SpecTrigger).                          *)
(***************************************************************************)
Range(seq) == {seq[k] : k \in 1..Len(seq)}

\* the cursor of the last event checkpointed since the (re)start, else the initial one
LastCheckpointed ==
  IF checkpoints = << >> THEN startCursor ELSE checkpoints[Len(checkpoints)]

\* C5: on every (re)connect the cursor parameter of the stream URL is the cursor of
\* the last checkpointed event, or the initial cursor if none was checkpointed yet
\* (0 stands for an omitted parameter and an empty cursor alike).
C5_ConnectCarriesLastCheckpoint ==
  pc = "fetch" => urlCursor = LastCheckpointed

\* the event with cursor 1 was received and checkpointed, the connection was lost,
\* and the second URL carries cursor=1
C5_Witness ==
  /\ pc = "fetch"
  /\ connects = 2
  /\ startCursor = 0
  /\ checkpoints = <<1>>
  /\ emitted = <<1>>
  /\ urlCursor = 1

\* C6: an event that passed the filters and carries a non-empty cursor is emitted
\* only when the in-memory cursor and the persisted slot already hold that cursor.
C6_CheckpointBeforeEmit ==
  [][emitted' # emitted =>
       LET i == emitted'[Len(emitted')]
       IN /\ PassesFilters(stream[i])
          /\ EventCursor(i) # 0 =>
               (cursor = EventCursor(i) /\ staticCursor = EventCursor(i))]_vars

\* an event with a cursor has been emitted
C6_Witness ==
  /\ emitted # << >>
  /\ EventCursor(emitted[Len(emitted)]) # 0
  /\ staticCursor = EventCursor(emitted[Len(emitted)])
  /\ pc \in {"read", "flush"}

\* the trigger has consumed the whole stream and waits for more
Quiescent == pc = "read" /\ srvPos > StreamLen /\ ~isStopped

\* every event after the first start's cursor that passes the filters was emitted
NoOmission ==
  \A i \in (firstCursor + 1)..StreamLen :
    PassesFilters(stream[i]) => i \in Range(emitted)

\* C7: delivery is at-least-once across crashes: once the trigger, restarted from
\* the persisted cursor after any crash, has consumed the stream, every event that
\* passes the filters has been emitted at least once.
C7_AtLeastOnceAcrossCrashes ==
  Quiescent => NoOmission

\* emitted events are filter-passing events, in stream order, none twice
InOrderNoDuplicate ==
  /\ \A k \in 1..Len(emitted) : PassesFilters(stream[emitted[k]])
  /\ \A k \in 1..(Len(emitted) - 1) : emitted[k] < emitted[k + 1]

EveryPassingEventHasCursor ==
  \A i \in 1..StreamLen : PassesFilters(stream[i]) => stream[i].hasCursor

C9_CursorNeverMovesBackward ==
  [][/\ (crashes' = crashes /\ cursor' # cursor) =>
          /\ pc = "flush"
          /\ cursor' = EventCursor(Head(pending))
          /\ staticCursor' = cursor'
          /\ cursor' > cursor
     /\ (crashes' = crashes /\ staticCursor' # staticCursor) => cursor' # cursor
     /\ crashes' # crashes =>
          /\ cursor' = (IF advancedCursor # 0 THEN advancedCursor ELSE staticCursor)
          /\ staticCursor' = staticCursor
     /\ cursor' < cursor => (crashes' # crashes /\ advancedCursor # 0)
     /\ staticCursor' < staticCursor => advancedCursor # 0]_vars

\* a restart took the override although a later cursor was persisted
C9_Witness ==
  /\ crashes = 1
  /\ advancedCursor = 1
  /\ staticCursor = 3
  /\ cursor = 1
  /\ checkpoints = << >>

\* C10: the reconnect loop ends only on explicit cancellation, and no failure
\* (end of stream, non-OK response, connection error, failure while preparing the
\* connection) is thrown out of it.
C10_LoopEndsOnlyOnCancellation ==
  /\ pc = "exited" => isStopped
  /\ pc # "rejected"

\* C11: once closeFunction has run, whichever await streamLoop was suspended in,
\* no new stream connection is opened, and when the loop has gone to rest no
\* connection or reader is left open.
C11_CancellationEffective ==
  /\ [][isStopped => connects' = connects]_vars
  /\ [](isStopped /\ pc \in {"sleep", "exited"} => ~connOpen)

\* the two calls have identical {method, path, query, body}; neither has an explicit key
SamePayloadNoExplicitKey ==
  /\ sigCall[1].method = sigCall[2].method
  /\ sigCall[1].path = sigCall[2].path
  /\ sigCall[1].qs = sigCall[2].qs
  /\ sigCall[1].body = sigCall[2].body
  /\ sigCall[1].idempotencyKey = NoKey
  /\ sigCall[2].idempotencyKey = NoKey

\* C12: for write calls without an explicit key (and not on a path where the header
\* is suppressed), two calls with identical {method, path, query, body} send the
\* same idempotency key if their correlation ids are the same and different
\* idempotency keys if their correlation ids differ.
C12_KeysFollowCorrelationId ==
  (/\ sigOut[1].built
   /\ sigOut[2].built
   /\ sigCall[1].method # "GET"
   /\ ~disableIdempotencyForRequest(sigCall[1])
   /\ SamePayloadNoExplicitKey)
  => /\ sigOut[1].header = sigOut[1].idempotencyKey
     /\ sigOut[2].header = sigOut[2].idempotencyKey
     /\ sigOut[1].idempotencyKey = sigOut[2].idempotencyKey
          <=> sigCall[1].correlationId = sigCall[2].correlationId

\* POST /api/v1/projects or POST /api/v1/spaces
SuppressedRequest(o) ==
  o.method = "POST" /\ (o.path = ProjectsPath \/ o.path = SpacesPath)

\* every attempt of call 1 sent so far carried exactly the header h
EveryAttemptCarries(h) == \A k \in 1..Len(sigSent) : sigSent[k] = h

CappedExponential(n) == IF n >= 5 THEN 16000 ELSE 1000 * Pow2(n - 1)

\* the hint of bkErr: the body's retry_after_ms if the error object has one, else the
\* Retry-After header as integer seconds or as a date's distance floored at 0; -1: none
RetryAfterHint ==
  LET body == bkErr.body
      header == bkErr.retryAfterHeader
  IN IF body.kind # "undefined" /\ body.retry_after_ms # NoNum THEN body.retry_after_ms
     ELSE IF header.kind = "seconds" THEN 1000 * header.v
     ELSE IF header.kind = "date" THEN (IF header.v < 0 THEN 0 ELSE header.v)
     ELSE NoNum

\* C14: before the retry that follows failed attempt n the executor sleeps
\* max(backoff(n), hint) with backoff(n) within [0.8, 1.2] x min(16000, 1000 * 2^(n-1)):
\* the sleep is never shorter than the hint nor than 0.8 x the capped exponential
\* delay, and never longer than the larger of the hint and 1.2 x that delay.
C14_SleepIsMaxOfBackoffAndHint ==
  bkDelay # NoNum =>
    LET e == CappedExponential(bkAttempt)
        hint == RetryAfterHint
        atLeast == IF hint > 0 THEN hint ELSE 0
    IN /\ 10 * bkDelay >= 8 * e
       /\ bkDelay >= atLeast
       /\ 10 * bkDelay <= Max(12 * e, 10 * atLeast)
       /\ hint = NoNum => 10 * bkDelay <= 12 * e

\* after attempt 6 (the cap applies) a Retry-After of 30 s outlasts the backoff,
\* although the body gave no retry_after_ms
C14_Witness ==
  /\ bkAttempt = 6
  /\ bkErr.retryAfterHeader = [kind |-> "seconds", v |-> 30]
  /\ bkErr.body.retry_after_ms = NoNum
  /\ bkDelay = 30000

(***************************************************************************)
(* The error surfaced on give-up (SpecRequest).                            *)
(***************************************************************************)
\* C15: the error raised when the executor gives up on an attempt's failure carries
\* the classification of that last failed attempt: its retryable flag is the
\* verdict of the retry decision (body flag, status 429 or >= 500, or transient
\* transport code) and its retry-after value is the one of the retry decision
\* (body retry_after_ms, else the Retry-After header).
C15_ErrorCarriesLastClassification ==
  (rpc = "thrown" /\ ~ThrownOverBudget) =>
    /\ result.cause = lastError
    /\ result.retryable = shouldRetry(lastError)
    /\ result.retry_after_ms = retryAfterMsOf(lastError)

(***************************************************************************)
(* Credential validation (SpecCreds).                                      *)
(***************************************************************************)
\* the number of "." in a token
RECURSIVE DotCount(_)
DotCount(token) ==
  IF token = << >> THEN 0
  ELSE (IF Head(token) = "." THEN 1 ELSE 0) + DotCount(Tail(token))

\* the credential invariants are violated: no service token or an empty one after
\* normalization, or a user token that does not have three dot-delimited segments
CredentialsViolateInvariant ==
  \/ crIn.serviceToken = NoToken
  \/ NormalizedServiceToken(crIn.serviceToken) = << >>
  \/ /\ EffectiveUserToken(crIn.userToken) # << >>
     /\ DotCount(EffectiveUserToken(crIn.userToken)) # 2

\* C16: a call whose credentials violate the credential invariants fails with a
\* validation error before any network I/O: it never reaches a request.
C16_InvalidCredentialsFailBeforeNetwork ==
  CredentialsViolateInvariant => crNet = 0 /\ crPc \in {"start", "creds", "failed"}

(***************************************************************************)
(* Redaction (SpecRedact).                                                 *)
(***************************************************************************)
RedactedContexts(thrown) ==
  {thrown.cause.options, thrown.cause.responseRequest, thrown.cause.responseHeaders,
   thrown.cause.config, thrown.cause.request}

\* in every header context of the thrown error the token headers read REDACTED
TokenHeadersRedacted(thrown) ==
  \A headers \in RedactedContexts(thrown) :
    \A key \in DOMAIN headers :
      key \in {"X-Kumiho-Token", "x-kumiho-token", "Authorization"}
        => headers[key] = Redacted

\* the two runs have thrown
BothThrown == rdThrown[1].kind = "thrown" /\ rdThrown[2].kind = "thrown"

\* C17 as stated: in every error that leaves kumihoRequest the X-Kumiho-Token and
\* Authorization values read REDACTED in every attached context, and the thrown
\* error with its description is the same whatever the literal values of the service
\* token and of the user token (where one is set) were.
C17_ErrorIndependentOfTokens ==
  /\ \A i \in 1..2 : rdThrown[i].kind = "thrown" => TokenHeadersRedacted(rdThrown[i])
  /\ (/\ BothThrown
      /\ rdCreds[1].tenantId = rdCreds[2].tenantId
      /\ (rdCreds[1].userToken = NoToken <=> rdCreds[2].userToken = NoToken))
       => rdThrown[1] = rdThrown[2]

\* what of the credentials the error shows: whether a user token is set, whether the
\* service token contains a ".", and the tenant id resolved from it
SameTokenShape ==
  /\ (EffectiveUserToken(rdCreds[1].userToken) = << >>)
       <=> (EffectiveUserToken(rdCreds[2].userToken) = << >>)
  /\ Includes(NormalizedServiceToken(rdCreds[1].serviceToken), ".")
       <=> Includes(NormalizedServiceToken(rdCreds[2].serviceToken), ".")
  /\ TenantIdOf(rdCreds[1]) = TenantIdOf(rdCreds[2])

\* C17 (amended): the token headers read REDACTED in every attached context, and
\* the thrown error with its description is the same for any two credentials that
\* agree on whether a user token is set, on whether the service token is
\* JWT-shaped, and on the tenant id resolved.
C17_ErrorShowsOnlyTokenShape ==
  /\ \A i \in 1..2 : rdThrown[i].kind = "thrown" => TokenHeadersRedacted(rdThrown[i])
  /\ (BothThrown /\ SameTokenShape) => rdThrown[1] = rdThrown[2]

\* two runs with different service tokens and different user tokens met an upstream
\* error that holds the request headers and an echo of the token, and threw the same
C17_Witness ==
  /\ BothThrown
  /\ rdRaw = [style |-> "statusCodeError", echo |-> TRUE]
  /\ rdCreds[1].serviceToken = <<"s1">>
  /\ rdCreds[2].serviceToken = <<"s2">>
  /\ rdCreds[1].userToken = <<"a", ".", "b", ".", "c">>
  /\ rdCreds[2].userToken = <<"d", ".", "e", ".", "f">>
  /\ rdThrown[1] = rdThrown[2]
  /\ rdThrown[1].cause.options["Authorization"] = Redacted

(***************************************************************************)
(* Malformed payloads (SpecTrigger).                                       *)
(***************************************************************************)
\* flush is about to hand onMessage a payload that is not valid JSON
MalformedNext == pc = "flush" /\ pending # << >> /\ ~stream[Head(pending)].valid

\* C18: a payload that is not valid JSON is dropped silently: handling it emits
\* nothing, leaves the in-memory and the persisted cursor unchanged and does not end
\* the connection; flush goes on with the following frames of the chunk and the read
\* loop with the following chunks; no malformed payload is ever emitted.
C18_MalformedPayloadDropped ==
  /\ [][(MalformedNext /\ crashes' = crashes) =>
          /\ emitted' = emitted
          /\ cursor' = cursor
          /\ staticCursor' = staticCursor
          /\ checkpoints' = checkpoints
          /\ connOpen' = connOpen
          /\ abortController' = abortController
          /\ pending' = Tail(pending)
          /\ pc' = IF Tail(pending) = << >> THEN "read" ELSE "flush"]_vars
  /\ [](\A k \in 1..Len(emitted) : stream[emitted[k]].valid)

\* the first frame of the connection was malformed, and the second frame, which
\* arrived after it on the same connection, has been delivered and checkpointed
C18_Witness ==
  /\ ~stream[1].valid
  /\ stream[2].valid
  /\ stream[2].hasCursor
  /\ connects = 1
  /\ crashes = 0
  /\ urlCursor = 0
  /\ emitted = <<2>>
  /\ cursor = 2
  /\ connOpen

(***************************************************************************)
(* Properties of the SSE parser (SpecSse).                                 *)
(***************************************************************************)
\* C19: the parser's output does not depend on chunking: once the whole stream has
\* been read, in whatever chunks, the payloads handed on are those the parser
\* hands on when the same stream arrives as a single chunk.
C19_ChunkingIndependence ==
  ssePos = Len(sseStream) => ssePayloads = flush(sseStream).payloads

\* a line's content after `data:`, at most one leading space removed
StripOneSpace(content) ==
  IF content # << >> /\ Head(content) = " " THEN Tail(content) ELSE content

\* the payload (none or one) of one complete frame whose CRLF read LF
FramePayloadsByRule(frame) ==
  LET lines == SplitLines(frame)
      dataLines == SelectSeq(lines, LAMBDA line : StartsWith(line, DataPrefix))
      joined == JoinLines([k \in 1..Len(dataLines) |->
                             StripOneSpace(SubSeq(dataLines[k], 6, Len(dataLines[k])))])
  IN IF dataLines = << >> \/ joined = << >> THEN << >> ELSE <<joined>>

\* the payloads of the complete frames of a text, in arrival order
RECURSIVE PayloadsByRule(_)
PayloadsByRule(text) ==
  LET boundary == IndexOfBoundary(text)
  IN IF boundary = 0 THEN << >>
     ELSE FramePayloadsByRule(SubSeq(text, 1, boundary - 1))
            \o PayloadsByRule(SubSeq(text, boundary + 2, Len(text)))

\* no CR stands directly before a CRLF
NoCrBeforeCrLf(text) ==
  \A i \in 1..(Len(text) - 2) : ~(text[i] = CR /\ text[i + 1] = CR /\ text[i + 2] = LF)

\* C20: each complete frame (text up to a blank-line boundary, CRLF treated as LF)
\* yields at most one payload: its data: lines in order, each without the prefix
\* and without at most one following space (further leading whitespace is kept),
\* joined by a newline; no data: line or an empty join yields nothing; payloads
\* come in arrival order.
C20_FramePayloadRule ==
  (sseDone /\ NoCrBeforeCrLf(sseStream))
    => ssePayloads = PayloadsByRule(ReplaceCrLf(sseStream))

(***************************************************************************)
(* Properties of the subtree stage (SpecPath).                             *)
(***************************************************************************)
HasGlob(text) == Includes(text, "*") \/ Includes(text, "?")

\* the normalized root of a glob-free filter: the canonical form without its "/**"
NormalizedRoot(raw) ==
  LET canonical == normalizeContextPathToKrefFilter(raw)
  IN SubSeq(canonical, 1, Len(canonical) - Len(SubtreeGlob))

\* the subtree stage as stated: everything with an empty filter; the root or below
\* it with a glob-free filter; every event that has a kref with a glob filter
PassesSubtreeStage(event, contextPathRaw) ==
  LET raw == Trim(contextPathRaw)
  IN IF raw = << >> THEN TRUE
     ELSE IF HasGlob(raw) THEN event.kref # << >>
     ELSE \/ event.kref = NormalizedRoot(raw)
          \/ StartsWith(event.kref, NormalizedRoot(raw) \o <<"/">>)

\* C21: the subtree stage passes every event with an empty path filter; with a
\* glob-free filter of normalized root R it passes exactly the events whose kref is
\* R or starts with R + '/'; with a filter that holds glob characters it passes
\* every event that has a kref.
C21_SubtreeStage ==
  cpOut # "pending" => (cpOut = "pass" <=> PassesSubtreeStage(cpEvent, cpPath))

(***************************************************************************)
(* Properties of wildcard matching (SpecWildcard).                         *)
(***************************************************************************)
\* the stated rule: the pattern covers the whole value, * stands for any run of
\* characters and ? for exactly one; any other character stands for itself
RECURSIVE GlobMatches(_, _)
GlobMatches(value, pattern) ==
  IF pattern = << >> THEN value = << >>
  ELSE IF Head(pattern) = "*"
       THEN \/ GlobMatches(value, Tail(pattern))
            \/ value # << >> /\ GlobMatches(Tail(value), pattern)
  ELSE IF Head(pattern) = "?"
       THEN value # << >> /\ GlobMatches(Tail(value), Tail(pattern))
  ELSE value # << >> /\ Head(value) = Head(pattern)
         /\ GlobMatches(Tail(value), Tail(pattern))

\* C22: a non-empty pattern is matched anchored against the whole value, * matching
\* any run of characters and ? exactly one character, a pattern without wildcards
\* matching only the identical value, and the evaluation never fails.
C22_AnchoredWildcardMatch ==
  (wcOut # "pending" /\ Trim(wcPattern) # << >>) =>
    /\ wcOut # "throws"
    /\ wcOut = "true" <=> GlobMatches(Trim(wcValue), Trim(wcPattern))

(***************************************************************************)
(* Properties of Project / Space Create (SpecCreate).                      *)
(***************************************************************************)
\* the POST threw and every response it got was a transient 5xx
CreateFailedOnTransient5xx ==
  /\ rpc = "thrown"
  /\ statuses # << >>
  /\ \A k \in 1..Len(statuses) : statuses[k] \in FallbackStatuses

\* C23: when the create POST fails because of transient 5xx responses, the node
\* makes one GET for the named resource, a single attempt, and outputs the existing
\* resource if the GET succeeds; if the GET fails too, the error of the POST is
\* thrown.
C23_FallbackGetAfterTransient5xx ==
  (CreateFailedOnTransient5xx /\ fbPc \in {"output", "thrown"}) =>
    /\ fbGets = 1
    /\ fbOut \in {"existing", "createError"}
    /\ fbPc = "output" <=> fbOut = "existing"

(***************************************************************************)
(* Properties of the timeout configuration (SpecConfig).                   *)
(***************************************************************************)
\* the per-call override, else the process-level setting, else 60000
SettingOf(override, processLevel) ==
  Coalesce(override, Coalesce(processLevel, 60000))

\* C24: without a per-call override the per-attempt timeout and the retry budget
\* are the process-level settings KUMIHO_N8N_REQUEST_TIMEOUT_MS and
\* KUMIHO_N8N_RETRY_BUDGET_MS, each 60000 ms when unset; a per-call timeoutMs or
\* retryBudgetMs overrides the process-level value.
C24_ProcessLevelDefaults ==
  cfgOut.timeout # NoNum =>
    /\ cfgOut.timeout = SettingOf(cfgOptions.timeoutMs, cfgEnv.timeoutMs)
    /\ cfgOut.retryBudgetMs = SettingOf(cfgOptions.retryBudgetMs, cfgEnv.retryBudgetMs)

(***************************************************************************)
(* Properties of the correlation id and the headers (SpecCorrelation).     *)
(***************************************************************************)
Built(i) == cidOut[i] # NoHeaders

\* C26: every attempt of one kumihoRequest call is sent with the same correlation
\* id and the same idempotency key, the ones fixed before the first attempt; nothing
\* is regenerated or altered between retries.
C26_AttemptsShareHeaders ==
  \A i \in DOMAIN cidSent :
    \A k \in 1..Len(cidSent[i]) :
      /\ cidSent[i][k].correlationId = cidSent[i][1].correlationId
      /\ cidSent[i][k].idempotencyKey = cidSent[i][1].idempotencyKey
      /\ cidSent[i][k] = cidOut[i]

\* a write whose correlation id is a random UUID and whose key is derived from it
\* has been sent MaxAttemptsBound times
C26_Witness ==
  /\ cidCall # << >>
  /\ DrawsUuid(cidCall[1], cidExec)
  /\ Len(cidSent[1]) = MaxAttemptsBound
  /\ cidSent[1][1].idempotencyKey.kind = "derived"
  /\ cidSent[1][MaxAttemptsBound].idempotencyKey.corr = cidSent[1][1].correlationId

NoCallerCorrelationId(i) == cidCall[i].correlationId = NoToken

SamePayload ==
  /\ cidCall[1].method = cidCall[2].method
  /\ cidCall[1].path = cidCall[2].path
  /\ cidCall[1].qs = cidCall[2].qs
  /\ cidCall[1].body = cidCall[2].body

\* every attempt sent so far by both calls carries the same x-idempotency-key
SentWithSameKey ==
  /\ cidOut[1].idempotencyKey = cidOut[2].idempotencyKey
  /\ \A i \in 1..2 : \A k \in 1..Len(cidSent[i]) :
       cidSent[i][k].idempotencyKey = cidOut[1].idempotencyKey

\* C30: a call given no correlation id uses the execution id if one is available
\* and a fresh random UUID only otherwise; so the calls of one execution share one
\* correlation id, and two write calls of one execution with the same method, path,
\* query and body (and no explicit key) are sent with the same idempotency key.
C30_ExecutionIdIsCorrelationId ==
  cidCall # << >> =>
    /\ \A i \in 1..2 :
         (Built(i) /\ NoCallerCorrelationId(i)) =>
           IF ExecutionIdUsable(cidExec)
           THEN cidOut[i].correlationId = cidExec
           ELSE /\ cidOut[i].correlationId # cidExec
                /\ \A j \in 1..2 :
                     (j # i /\ Built(j)) => cidOut[j].correlationId # cidOut[i].correlationId
    /\ (/\ Built(1) /\ Built(2)
        /\ NoCallerCorrelationId(1) /\ NoCallerCorrelationId(2)
        /\ ExecutionIdUsable(cidExec)) =>
         /\ cidOut[1].correlationId = cidOut[2].correlationId
         /\ (/\ SamePayload
             /\ isWriteMethod(cidCall[1].method)
             /\ cidCall[1].idempotencyKey = NoKey
             /\ cidCall[2].idempotencyKey = NoKey) => SentWithSameKey

\* two POSTs of one execution with the same payload were both sent with the key
\* derived from the execution id
C30_Witness ==
  /\ cidCall # << >>
  /\ ExecutionIdUsable(cidExec)
  /\ NoCallerCorrelationId(1) /\ NoCallerCorrelationId(2)
  /\ SamePayload
  /\ cidCall[1].method = "POST" /\ cidCall[1].path = ItemsPath
  /\ cidCall[1].idempotencyKey = NoKey /\ cidCall[2].idempotencyKey = NoKey
  /\ Len(cidSent[1]) >= 1 /\ Len(cidSent[2]) >= 1
  /\ cidSent[1][1].idempotencyKey.kind = "derived"
  /\ cidSent[1][1].idempotencyKey = cidSent[2][1].idempotencyKey
  /\ cidSent[1][1].correlationId = cidExec

(***************************************************************************)
(* Cancellation and dropped events (SpecTriggerLive, SpecTrigger).         *)
(***************************************************************************)
LoopEnded == pc \in {"exited", "rejected"}

\* C25: after closeFunction the stream loop eventually terminates: a pending read is
\* aborted, a pending connect completes or is aborted, at most one reconnect delay
\* elapses and the loop exits without starting another iteration.
C25_LoopTerminatesAfterClose ==
  /\ isStopped ~> LoopEnded
  /\ [](isStopped /\ pc = "read" => abortController = "aborted")
  /\ [][isStopped /\ pc = "sleep" => pc' = "exited"]_vars
  /\ [][isStopped => pc' # "creds"]_vars

\* closeFunction ran while a connection was being read, and the loop has exited
C25_Witness ==
  /\ pc = "exited"
  /\ isStopped
  /\ abortController = "aborted"
  /\ connects = 1
  /\ emitted # << >>

\* the next frame of the chunk is one onMessage drops: malformed, or turned down by
\* the subtree stage, the name stage or the item filters
DroppedNext ==
  /\ pc = "flush"
  /\ pending # << >>
  /\ FilterOutcome(stream[Head(pending)]) \in {"parse", "subtree", "name", "item"}

EmittedNext ==
  /\ pc = "flush"
  /\ pending # << >>
  /\ FilterOutcome(stream[Head(pending)]) = "none"

CursorsUnchanged ==
  /\ cursor' = cursor
  /\ staticCursor' = staticCursor
  /\ checkpoints' = checkpoints

\* C27: handling a dropped event (malformed, or rejected by the subtree stage, the
\* name stage or the item filters) changes neither the in-memory nor the persisted
\* cursor; the cursors move only in handling an event that passed every filter, to
\* that event's cursor and on the way to its emit, so that while no emit has failed
\* and the process has not died every checkpointed event is emitted or being emitted.
C27_DroppedEventsLeaveCursor ==
  /\ [][crashes' = crashes =>
          /\ DroppedNext => CursorsUnchanged /\ emitted' = emitted
          /\ ~CursorsUnchanged =>
               /\ EmittedNext
               /\ pc' = "emit"
               /\ cursor' = EventCursor(Head(pending))
               /\ staticCursor' = EventCursor(Head(pending))]_vars
  /\ [](crashes = 0 /\ sinkFailures = 0 =>
          \A k \in 1..Len(checkpoints) :
             \/ \E j \in 1..Len(emitted) : emitted[j] = checkpoints[k]
             \/ pc = "emit" /\ Head(pending) = checkpoints[k])

\* event 1 was emitted and checkpointed, events 2 (another item kind) and 3 (another
\* routing-key name), both with a cursor, were handled on the same connection and
\* the cursors still name event 1
C27_Witness ==
  /\ itemKindFilter = <<"k">>
  /\ FilterOutcome(stream[1]) = "none"
  /\ FilterOutcome(stream[2]) = "item" /\ stream[2].hasCursor
  /\ FilterOutcome(stream[3]) = "name" /\ stream[3].hasCursor
  /\ advancedCursor = 0
  /\ startCursor = 0
  /\ srvPos = 4
  /\ pc = "read"
  /\ connects = 1
  /\ crashes = 0
  /\ emitted = <<1>>
  /\ cursor = 1
  /\ staticCursor = 1
  /\ checkpoints = <<1>>

\* the step about to be taken raises an exception out of onMessage: a filter pattern
\* that cannot be evaluated, or (at this.emit) a sink that fails
FilterThrowsNext ==
  /\ pc = "flush"
  /\ pending # << >>
  /\ FilterOutcome(stream[Head(pending)]) = "throws"

EmitThrowsStep == pc = "emit" /\ sinkFailures' # sinkFailures

\* C28: an exception raised by a filter or by this.emit never ends the reconnect
\* loop: the connection is left, the frames still buffered are not handled, the
\* cursor stays as it stood, the reconnect delay follows, and the next connection
\* is opened with that cursor.
C28_ThrowInOnMessageReconnects ==
  /\ [][crashes' = crashes /\ (FilterThrowsNext \/ EmitThrowsStep) =>
          /\ pc' = "sleep"
          /\ pending' = << >>
          /\ emitted' = emitted
          /\ cursor' = cursor
          /\ staticCursor' = staticCursor
          /\ isStopped' = isStopped]_vars
  /\ [][pc = "sleep" /\ pc' # pc /\ ~isStopped /\ crashes' = crashes => pc' = "creds"]_vars
  /\ [](pc = "fetch" => urlCursor = cursor)

\* this.emit threw on event 1 after its checkpoint while event 2, which passes every
\* filter, was buffered behind it: event 2 was not handled, and after the delay the
\* second connection is being opened with cursor 1
C28_Witness ==
  /\ sinkFailures = 1
  /\ crashes = 0
  /\ FilterOutcome(stream[1]) = "none"
  /\ FilterOutcome(stream[2]) = "none"
  /\ startCursor = 0
  /\ srvPos = 3
  /\ emitted = << >>
  /\ checkpoints = <<1>>
  /\ cursor = 1
  /\ connects = 2
  /\ pc = "fetch"
  /\ urlCursor = 1

\* C29: once closeFunction has set the stopped flag, no event is emitted and no
\* cursor checkpoint is written, whatever was already read or buffered (until a
\* restart of the process creates a new trigger).
C29_NothingDeliveredAfterClose ==
  [][isStopped /\ crashes' = crashes =>
       /\ emitted' = emitted
       /\ cursor' = cursor
       /\ staticCursor' = staticCursor
       /\ checkpoints' = checkpoints]_vars

\* closeFunction ran while the first read was settling, the read delivered a chunk
\* holding event 1, which passes every filter and has a cursor, and nothing was
\* emitted or checkpointed
C29_Witness ==
  /\ isStopped
  /\ abortController = "aborted"
  /\ crashes = 0
  /\ sinkFailures = 0
  /\ connects = 1
  /\ FilterOutcome(stream[1]) = "none"
  /\ stream[1].hasCursor
  /\ startCursor = 0
  /\ srvPos >= 2
  /\ emitted = << >>
  /\ checkpoints = << >>
  /\ cursor = 0
  /\ staticCursor = 0

====
